---- MODULE Spec2Model ----
(***************************************************************************)
(* A model of the trackshift file-transfer engine: the durable session     *)
(* store (internal/session), the sender and receiver drivers (cmd/sender,  *)
(* cmd/receiver) and the framed TCP transport (internal/transport).        *)
(***************************************************************************)
EXTENDS Integers, Sequences, FiniteSets, TLC

(***************************************************************************)
(* Bounds of the model.                                                    *)
(***************************************************************************)
\* Number of goroutines calling into one SessionManager concurrently.
NumWorkers == 2
\* Number of session-store calls started in one behaviour (also the last
\* reading of the logical clock behind time.Now()).
MaxClock == 3

Workers == 1 .. NumWorkers

(***************************************************************************)
(* Names.  A file name is the sequence of its dot-separated components,    *)
(* the extension components keeping their dot: u1.json.tmp is              *)
(* <<"u1", ".json", ".tmp">>.  A session id is a name without extension.   *)
(***************************************************************************)
SessionIDs == {<<"u1">>, <<"u2">>}
ChunkIDs == {"0", "1"}
ExtTokens == {".json", ".tmp", ".checkpoint"}

\* filepath.Ext: the suffix of the name from its last dot on.
Ext(name) ==
    IF name # <<>> /\ name[Len(name)] \in ExtTokens THEN name[Len(name)] ELSE ""

\* e.Name()[:len(e.Name())-len(".json")]
TrimExt(name) == SubSeq(name, 1, Len(name) - 1)

\* A manager that keeps every session in one file.
SessionPathShared(id) == <<"session", ".json">>

\* filepath.Join(m.baseDir, session.ID+".json")
SessionPath(id) == id \o <<".json">>

\* A save that writes in place: the temp path is the final path.
TmpPathInPlace(path) == path

\* path + ".tmp"
TmpPath(path) == path \o <<".tmp">>

(***************************************************************************)
(* pkg/models: statuses, records and their validation.                     *)
(***************************************************************************)
ChunkStatusPending == "pending"
ChunkStatusInProgress == "in_progress"
ChunkStatusCompleted == "completed"
ChunkStatusFailed == "failed"
ChunkStatuses ==
    {ChunkStatusPending, ChunkStatusInProgress, ChunkStatusCompleted, ChunkStatusFailed}

SessionStatusCreated == "created"
SessionStatuses == {"created", "transferring", "paused", "completed", "failed"}

\* The zero values of the Go structs.
ZeroFile == [Name |-> "", Size |-> 0, Hash |-> <<>>, MimeType |-> ""]

ZeroChunk ==
    [ID |-> "", Size |-> 0, Offset |-> 0, SHA256 |-> <<>>, IsParity |-> FALSE,
     Status |-> "", UpdatedAt |-> 0, CreatedAt |-> 0, SessionID |-> <<>>,
     Priority |-> 0, RetryCount |-> 0, Error |-> ""]

NoChunks == [c \in {} |-> ZeroChunk]

ZeroSession ==
    [ID |-> <<>>, File |-> ZeroFile, Status |-> "", Chunks |-> NoChunks,
     CreatedAt |-> 0, UpdatedAt |-> 0, CompletedAt |-> 0, TotalChunks |-> 0,
     Completed |-> 0, Failed |-> 0, BytesSent |-> 0, BytesReceived |-> 0]

\* A Validate that looks at the name only.
FileMetadataValidateNameOnly(f) ==
    IF f.Name = "" THEN "file name must not be empty" ELSE ""

\* FileMetadata.Validate: "" when valid, the error otherwise.
FileMetadataValidate(f) ==
    IF f.Name = "" THEN "file name must not be empty"
    ELSE IF f.Size <= 0 THEN "file size must be greater than zero"
    ELSE IF f.Hash = <<>> THEN "file hash must not be empty"
    ELSE ""

\* A Validate that does not look at the status.
TransferSessionValidateNoStatus(s) ==
    IF s.ID = <<>> THEN "session id must not be empty"
    ELSE IF FileMetadataValidate(s.File) # "" THEN FileMetadataValidate(s.File)
    ELSE IF s.TotalChunks < 0 THEN "total chunks must be non-negative"
    ELSE IF s.Completed < 0 \/ s.Failed < 0
         THEN "completed/failed counts must be non-negative"
    ELSE ""

\* TransferSession.Validate: "" when valid, the error otherwise.
TransferSessionValidate(s) ==
    IF s.ID = <<>> THEN "session id must not be empty"
    ELSE IF FileMetadataValidate(s.File) # "" THEN FileMetadataValidate(s.File)
    ELSE IF s.Status \notin SessionStatuses THEN "invalid session status"
    ELSE IF s.TotalChunks < 0 THEN "total chunks must be non-negative"
    ELSE IF s.Completed < 0 \/ s.Failed < 0
         THEN "completed/failed counts must be non-negative"
    ELSE ""

(***************************************************************************)
(* encoding/json of the session: a JSON object is a function from its keys *)
(* (the struct tags) to values.  Decoding starts from the zero struct and  *)
(* sets the fields whose keys the object has; other keys are ignored.      *)
(***************************************************************************)
Get(obj, key, zero) == IF key \in DOMAIN obj THEN obj[key] ELSE zero

MarshalFile(f) ==
    [name |-> f.Name, size |-> f.Size, hash |-> f.Hash, mime_type |-> f.MimeType]

UnmarshalFile(o) ==
    [Name |-> Get(o, "name", ""), Size |-> Get(o, "size", 0),
     Hash |-> Get(o, "hash", <<>>), MimeType |-> Get(o, "mime_type", "")]

MarshalChunk(c) ==
    [id |-> c.ID, size |-> c.Size, offset |-> c.Offset, sha256 |-> c.SHA256,
     is_parity |-> c.IsParity, status |-> c.Status, updated_at |-> c.UpdatedAt,
     created_at |-> c.CreatedAt, session_id |-> c.SessionID,
     priority |-> c.Priority, retry_count |-> c.RetryCount, error |-> c.Error]

UnmarshalChunk(o) ==
    [ID |-> Get(o, "id", ""), Size |-> Get(o, "size", 0),
     Offset |-> Get(o, "offset", 0), SHA256 |-> Get(o, "sha256", <<>>),
     IsParity |-> Get(o, "is_parity", FALSE), Status |-> Get(o, "status", ""),
     UpdatedAt |-> Get(o, "updated_at", 0), CreatedAt |-> Get(o, "created_at", 0),
     SessionID |-> Get(o, "session_id", <<>>), Priority |-> Get(o, "priority", 0),
     RetryCount |-> Get(o, "retry_count", 0), Error |-> Get(o, "error", "")]

\* completed_at is tagged omitempty: a nil pointer (0 here) writes no key.
MarshalSession(s) ==
    LET base ==
            [id |-> s.ID, file |-> MarshalFile(s.File), status |-> s.Status,
             chunks |-> [c \in DOMAIN s.Chunks |-> MarshalChunk(s.Chunks[c])],
             created_at |-> s.CreatedAt, updated_at |-> s.UpdatedAt,
             total_chunks |-> s.TotalChunks, completed |-> s.Completed,
             failed |-> s.Failed, bytes_sent |-> s.BytesSent,
             bytes_received |-> s.BytesReceived]
    IN  IF s.CompletedAt = 0 THEN base
        ELSE [k \in DOMAIN base \cup {"completed_at"} |->
                 IF k = "completed_at" THEN s.CompletedAt ELSE base[k]]

UnmarshalSession(o) ==
    LET chunks == Get(o, "chunks", NoChunks)
    IN  [ID |-> Get(o, "id", <<>>),
         File |-> UnmarshalFile(Get(o, "file", MarshalFile(ZeroFile))),
         Status |-> Get(o, "status", ""),
         Chunks |-> [c \in DOMAIN chunks |-> UnmarshalChunk(chunks[c])],
         CreatedAt |-> Get(o, "created_at", 0), UpdatedAt |-> Get(o, "updated_at", 0),
         CompletedAt |-> Get(o, "completed_at", 0),
         TotalChunks |-> Get(o, "total_chunks", 0),
         Completed |-> Get(o, "completed", 0), Failed |-> Get(o, "failed", 0),
         BytesSent |-> Get(o, "bytes_sent", 0),
         BytesReceived |-> Get(o, "bytes_received", 0)]

(***************************************************************************)
(* The base directory: a function from the names of its entries to their   *)
(* content.  A regular file holding a complete JSON value has kind "json", *)
(* one holding a complete JSON value followed by other bytes has kind      *)
(* "mixed", one holding a strict prefix of an encoding has kind "torn", a  *)
(* file just created has kind "empty"; "dir" is a subdirectory and         *)
(* "noperm" a file that cannot be opened.                                  *)
(***************************************************************************)
NoObj == [k \in {} |-> 0]
EmptyDir == [n \in {} |-> [kind |-> "empty", obj |-> NoObj]]

EmptyFile == [kind |-> "empty", obj |-> NoObj]
JSONFile(obj) == [kind |-> "json", obj |-> obj]
TornFile(obj) == [kind |-> "torn", obj |-> obj]
MixedFile(obj) == [kind |-> "mixed", obj |-> obj]

\* dsk with the entry name set to content.
WriteEntry(dsk, name, content) ==
    [n \in DOMAIN dsk \cup {name} |-> IF n = name THEN content ELSE dsk[n]]

\* dsk without the entry name.
RemoveEntry(dsk, name) == [n \in DOMAIN dsk \ {name} |-> dsk[n]]

\* os.Rename(from, to)
Rename(dsk, from, to) == RemoveEntry(WriteEntry(dsk, to, dsk[from]), from)

(***************************************************************************)
(* Bytes.  File sizes are counted in blocks of 1 MiB: the content of a     *)
(* file is the sequence of its blocks.  A JSON text is one token, the      *)
(* value it encodes.                                                       *)
(***************************************************************************)
RawBytes(s) == [kind |-> "raw", seq |-> s]
JSONBytes(obj) == [kind |-> "json", seq |-> <<obj>>]
NoBytes == RawBytes(<<>>)

\* json.Unmarshal of a byte string: [err, obj].
JSONUnmarshal(b) ==
    IF b.kind = "json" THEN [err |-> "", obj |-> b.seq[1]]
    ELSE [err |-> "invalid character", obj |-> NoObj]

(***************************************************************************)
(* internal/crypto.  SHA-256 is taken as an ideal hash: the digest of b is *)
(* a token of HashLen bytes naming b, equal to no other byte string.  A    *)
(* byte string of the hash space is a sequence of tokens [c, of, n]: the n *)
(* leading bytes of the digest of `of` (c = "sum"), or one zero byte       *)
(* (c = "00").  A hex string is a sequence of tokens [h, of]: the lower    *)
(* case (h = "hex") or upper case (h = "HEX") digits of the bytes `of`, a  *)
(* character that is no hex digit (h = "bad"), or one hex digit without    *)
(* its pair (h = "odd").                                                   *)
(***************************************************************************)
\* sha256.Size, the length of the [32]byte arrays.
HashLen == 32

SumToken(b, n) == [c |-> "sum", of |-> b, n |-> n]
ZeroByte == [c |-> "00", of |-> NoBytes, n |-> 1]

LowerHex(t) == [h |-> "hex", of |-> t]
UpperHex(t) == [h |-> "HEX", of |-> t]
BadDigit == [h |-> "bad", of |-> ZeroByte]
OddDigit == [h |-> "odd", of |-> ZeroByte]

\* HashChunk: sha256.Sum256(data), a [32]byte array.
HashChunk(data) == <<SumToken(data, HashLen)>>

\* fmt.Sprintf("%x", hash[:]) and hex.EncodeToString: the hex digits of the
\* bytes, token by token.
HexEncode(bytes) == [i \in 1 .. Len(bytes) |-> LowerHex(bytes[i])]

\* hex.DecodeString: [err, bytes]; digits of either case decode, a
\* character that is no hex digit or a digit without its pair is an error.
HexDecode(str) ==
    IF \E i \in 1 .. Len(str) : str[i].h = "bad"
    THEN [err |-> "invalid byte", bytes |-> <<>>]
    ELSE IF \E i \in 1 .. Len(str) : str[i].h = "odd"
    THEN [err |-> "odd length hex string", bytes |-> <<>>]
    ELSE [err |-> "", bytes |-> [i \in 1 .. Len(str) |-> str[i].of]]

\* The first n bytes of a byte string of the hash space.
RECURSIVE TakeBytes(_, _)
TakeBytes(bytes, n) ==
    IF n = 0 \/ bytes = <<>> THEN <<>>
    ELSE IF Head(bytes).n <= n
    THEN <<Head(bytes)>> \o TakeBytes(Tail(bytes), n - Head(bytes).n)
    ELSE <<[Head(bytes) EXCEPT !.n = n]>>

RECURSIVE ByteLen(_)
ByteLen(bytes) == IF bytes = <<>> THEN 0 ELSE Head(bytes).n + ByteLen(Tail(bytes))

\* var expectedHash [32]byte; copy(expectedHash[:], bytes): the first
\* HashLen bytes, the rest of the array left zero.
Copy32(bytes) ==
    LET head == TakeBytes(bytes, HashLen)
    IN  head \o [i \in 1 .. HashLen - ByteLen(head) |-> ZeroByte]

\* VerifyChunk: actual == expectedHash on [32]byte arrays.
VerifyChunk(data, expectedHash) == HashChunk(data) = expectedHash

\* The number of bytes of a byte string, in tokens.
NumBytes(b) == Len(b.seq)

\* A sender that does not compress.
CompressChunkNone(data) == data

\* CompressChunk: a zstd frame around the data; EncodeAll returns nothing
\* for an empty input.
CompressChunk(data) ==
    IF NumBytes(data) = 0 THEN NoBytes ELSE [kind |-> "zstd", seq |-> <<data>>]

\* DecompressChunk: [err, out]; DecodeAll returns nothing for an empty
\* input, the content of a zstd frame, and an error on what is no frame.
DecompressChunk(data) ==
    IF NumBytes(data) = 0 THEN [err |-> "", out |-> NoBytes]
    ELSE IF data.kind = "zstd" THEN [err |-> "", out |-> data.seq[1]]
    ELSE [err |-> "zstd decode", out |-> NoBytes]

\* utils.HashFileSHA256: the hex digest of the content of a file.
HashFileSHA256(content) == HexEncode(HashChunk(RawBytes(content)))

(***************************************************************************)
(* internal/chunker.                                                       *)
(***************************************************************************)
\* ChunkerConfig.normalize: the defaults, in MiB.
MinChunkSize == 5
MaxChunkSize == 200
DefaultChunkSize == 50

\* fmt.Sprintf("%d", index) for the indexes of the model.
Digits == <<"0", "1", "2", "3", "4", "5", "6", "7", "8", "9">>
DecimalString(index) == Digits[index + 1]

\* A clamp that has no lower bound.
ClampChunkSizeNoMin(chunkSize) ==
    LET a == IF chunkSize <= 0 THEN DefaultChunkSize ELSE chunkSize
    IN  IF a > MaxChunkSize THEN MaxChunkSize ELSE a

\* ChunkFile, lines 59-67: the chunk size used for a requested one.
ClampChunkSize(chunkSize) ==
    LET a == IF chunkSize <= 0 THEN DefaultChunkSize ELSE chunkSize
        b == IF a < MinChunkSize THEN MinChunkSize ELSE a
    IN  IF b > MaxChunkSize THEN MaxChunkSize ELSE b

Min(a, b) == IF a < b THEN a ELSE b

\* ChunkFile, lines 89-127: the read loop from offset on.
RECURSIVE chunkLoop(_, _, _, _, _, _)
chunkLoop(content, chunkSize, offset, index, result, now) ==
    LET n == Min(chunkSize, Len(content) - offset)
        chunk == SubSeq(content, offset + 1, offset + n)
        meta == [ZeroChunk EXCEPT !.ID = DecimalString(index), !.Size = n,
                                  !.Offset = offset,
                                  !.SHA256 = HexEncode(HashChunk(RawBytes(chunk))),
                                  !.Status = ChunkStatusPending,
                                  !.CreatedAt = now, !.UpdatedAt = now]
    IN  IF n = 0 THEN result
        ELSE IF offset + n >= Len(content) THEN Append(result, meta)
        ELSE chunkLoop(content, chunkSize, offset + n, index + 1,
                       Append(result, meta), now)

\* A ChunkFile that returns the chunks of full size only.
ChunkFileWholeOnly(content, chunkSize, now) ==
    LET size == ClampChunkSize(chunkSize)
    IN  chunkLoop(SubSeq(content, 1, (Len(content) \div size) * size), size,
                  0, 0, <<>>, now)

\* A ChunkFile whose chunk size depends on when it is called.
ChunkFileTimedSize(content, chunkSize, now) ==
    chunkLoop(content, ClampChunkSize(MinChunkSize + now), 0, 0, <<>>, now)

\* fileChunker.ChunkFile on a file of the given content.
ChunkFile(content, chunkSize, now) ==
    chunkLoop(content, ClampChunkSize(chunkSize), 0, 0, <<>>, now)

(***************************************************************************)
(* The state.                                                              *)
(***************************************************************************)
VARIABLES
    sessions,   \* SessionManager.sessions: the in-memory table, id -> session
    disk,       \* the entries of SessionManager.baseDir
    lock,       \* SessionManager.mu: 0 when free, else the worker holding it
    pc,         \* per worker: the call in progress and its position
    ret,        \* per worker: the last call that returned, and its result
    clock,      \* the reading of time.Now(); one tick per call started
    issued,     \* the ids uuid.NewString has returned so far
    alive,      \* FALSE between a crash of the process and its restart
    gen,        \* the clock reading at which the current manager was built
    baseDir,    \* what the manager's baseDir argument names
    ctor,       \* the result of the last NewSessionManager, "none" before it
    dclock,     \* the reading of time.Now() in the sender and the receiver
    uuids,      \* the ids uuid.NewString has returned to the drivers
    source,     \* the content of the file the sender is run on
    chunkSizeFlag, \* the --chunk-size of the sender
    smgr,       \* the sender's SessionManager and its session directory
    snd,        \* the sender process: its position, session and chunkMetas
    runs,       \* the runs of the sender so far, the current one last
    wire,       \* per connection: the frames written and not yet received
    wstate,     \* per connection: "none", "open" or "closed" by the writer
    injected,   \* the number of frames written by the peers of SpecRecv
    faults,     \* the number of I/O errors the drivers have met
    rmgr,       \* the receiver's SessionManager and its session directory
    rcv,        \* per connection: the state of its handleConnection
    parts,      \* the files of TCPReceiver.TempDir
    output,     \* the files of TCPReceiver.OutputDir
    call        \* a function under examination: its arguments and results

driverVars ==
    <<dclock, uuids, source, chunkSizeFlag, smgr, snd, runs, wire, wstate,
      injected, faults, rmgr, rcv, parts, output, call>>

storeVars ==
    <<sessions, disk, lock, pc, ret, clock, issued, alive, gen, baseDir, ctor>>

NoSessions == [i \in {} |-> ZeroSession]

\* The zero SessionCheckpoint.  A nil list (encoded as null) and an empty
\* one are both <<>>.
ZeroCheckpoint ==
    [SessionID |-> <<>>, CompletedChunks |-> <<>>, PendingChunks |-> <<>>,
     TotalChunks |-> 0, LastUpdateTime |-> 0]

\* The descriptor of a file that is not open.
NoFd == <<>>

IdlePC ==
    [step |-> "idle", op |-> "", file |-> ZeroFile, sid |-> <<>>, cid |-> "",
     status |-> "", base |-> [Completed |-> 0, Failed |-> 0], before |-> NoSessions,
     cp |-> ZeroCheckpoint, keys |-> {}, fd |-> NoFd]

NoRet ==
    [op |-> "", file |-> ZeroFile, sid |-> <<>>, cid |-> "", status |-> "",
     err |-> "", at |-> 0, before |-> NoSessions, after |-> NoSessions]

\* The file descriptors create_session is called with: a valid one, and one
\* for each way FileMetadata.Validate refuses a descriptor.
ValidFile == [Name |-> "a.bin", Size |-> 3, Hash |-> <<"h">>, MimeType |-> ""]
FileInputs ==
    {ValidFile,
     [ValidFile EXCEPT !.Name = ""],
     [ValidFile EXCEPT !.Size = 0],
     [ValidFile EXCEPT !.Size = -1],
     [ValidFile EXCEPT !.Hash = <<>>]}

\* The statuses update_chunk_status is called with.
UpdateStatuses == {ChunkStatusInProgress, ChunkStatusCompleted, ChunkStatusFailed}

(***************************************************************************)
(* SessionManager.LoadSession and loadExisting.                            *)
(***************************************************************************)
\* json.NewDecoder(f).Decode(&s), line 198: [err, obj].  The decoder reads
\* the first JSON value of the file and does not look at what follows it;
\* a file that ends before the value does, or holds none, or is a
\* directory, is an error.
DecodeFirst(content) ==
    IF content.kind \in {"json", "mixed"} THEN [err |-> "", obj |-> content.obj]
    ELSE [err |-> "decode session", obj |-> NoObj]

\* A LoadSession that does not validate what it has decoded.
LoadSessionUnvalidated(dsk, id) ==
    LET path == SessionPath(id)
    IN  IF path \notin DOMAIN dsk \/ dsk[path].kind = "noperm"
        THEN [err |-> "open session file", s |-> ZeroSession]
        ELSE IF DecodeFirst(dsk[path]).err # ""
        THEN [err |-> "decode session", s |-> ZeroSession]
        ELSE [err |-> "", s |-> UnmarshalSession(DecodeFirst(dsk[path]).obj)]

\* LoadSession(id) on the directory dsk: [err, s], err = "" on success.
LoadSession(dsk, id) ==
    LET path == SessionPath(id)
    IN  IF path \notin DOMAIN dsk \/ dsk[path].kind = "noperm"
        THEN [err |-> "open session file", s |-> ZeroSession]
        ELSE IF DecodeFirst(dsk[path]).err # ""
        THEN [err |-> DecodeFirst(dsk[path]).err, s |-> ZeroSession]
        ELSE LET s == UnmarshalSession(DecodeFirst(dsk[path]).obj)
             IN  [err |-> TransferSessionValidate(s), s |-> s]

\* The loop of loadExisting over the entries not yet visited.
RECURSIVE loadEntries(_, _, _)
loadEntries(entries, dsk, table) ==
    IF entries = {} THEN table
    ELSE LET e == CHOOSE n \in entries : TRUE
             rest == entries \ {e}
             id == TrimExt(e)
             r == LoadSession(dsk, id)
         IN  IF dsk[e].kind = "dir" THEN loadEntries(rest, dsk, table)
             ELSE IF Ext(e) # ".json" THEN loadEntries(rest, dsk, table)
             ELSE IF r.err # "" THEN loadEntries(rest, dsk, table)
             ELSE loadEntries(rest, dsk,
                      [i \in DOMAIN table \cup {id} |->
                          IF i = id THEN r.s ELSE table[i]])

\* loadExisting: the table built from the directory.
loadExisting(dsk) == loadEntries(DOMAIN dsk, dsk, NoSessions)

\* loadExisting, lines 58-66: the ids LoadSession is called with, one for
\* each entry that is no directory and has the extension .json.
LoadAttempted(dsk) ==
    {TrimExt(e) : e \in {n \in DOMAIN dsk : dsk[n].kind # "dir" /\ Ext(n) = ".json"}}

\* loadExisting, lines 67-71: the ids of the "failed to load session" lines
\* written to os.Stderr.
LoadReported(dsk) ==
    {id \in LoadAttempted(dsk) : LoadSession(dsk, id).err # ""}

(***************************************************************************)
(* The in-memory part of UpdateChunkStatus, as functions on the session.   *)
(***************************************************************************)
\* Lines 130-138: find the chunk or lazily create it, its status not yet
\* set.
FindOrCreateChunk(s, cid, now) ==
    IF cid \in DOMAIN s.Chunks THEN s
    ELSE [s EXCEPT !.Chunks =
             [c \in DOMAIN s.Chunks \cup {cid} |->
                 IF c = cid THEN [ZeroChunk EXCEPT !.ID = cid, !.CreatedAt = now]
                 ELSE s.Chunks[c]]]

\* An UpdateChunkStatus that inserts a chunk it does not find as pending
\* and sets the status of the chunks it finds only.
SetChunkStatusNewPending(s, cid, status, now) ==
    LET upd == IF cid \in DOMAIN s.Chunks
               THEN [s.Chunks[cid] EXCEPT !.Status = status, !.UpdatedAt = now]
               ELSE [ZeroChunk EXCEPT !.ID = cid, !.CreatedAt = now,
                                      !.Status = ChunkStatusPending, !.UpdatedAt = now]
    IN  [s EXCEPT !.Chunks =
            [c \in DOMAIN s.Chunks \cup {cid} |-> IF c = cid THEN upd ELSE s.Chunks[c]]]

\* Lines 130-141: find or lazily create the chunk, set its status.
SetChunkStatus(s, cid, status, now) ==
    LET chunk == IF cid \in DOMAIN s.Chunks THEN s.Chunks[cid]
                 ELSE [ZeroChunk EXCEPT !.ID = cid, !.CreatedAt = now]
        upd == [chunk EXCEPT !.Status = status, !.UpdatedAt = now]
    IN  [s EXCEPT !.Chunks =
            [c \in DOMAIN s.Chunks \cup {cid} |-> IF c = cid THEN upd ELSE s.Chunks[c]]]

\* Lines 143-149: s.Completed++ or s.Failed++ written back from the values
\* read (base), then s.UpdatedAt.
BumpCounter(s, status, base, now) ==
    [s EXCEPT !.Completed = IF status = ChunkStatusCompleted
                            THEN base.Completed + 1 ELSE @,
              !.Failed = IF status = ChunkStatusFailed THEN base.Failed + 1 ELSE @,
              !.UpdatedAt = now]

Counters(s) == [Completed |-> s.Completed, Failed |-> s.Failed]

\* An UpdateChunkStatus that marks the session completed with its last
\* chunk.
UpdateChunkStatusMemFinishing(s, cid, status, now) ==
    LET c == SetChunkStatus(s, cid, status, now)
        u == BumpCounter(c, status, Counters(c), now)
    IN  IF u.TotalChunks > 0 /\ u.Completed >= u.TotalChunks
        THEN [u EXCEPT !.Status = "completed", !.CompletedAt = now]
        ELSE u

\* Lines 130-149 as one step: the session after UpdateChunkStatus has
\* changed it in memory.
UpdateChunkStatusMem(s, cid, status, now) ==
    LET c == SetChunkStatus(s, cid, status, now)
    IN  BumpCounter(c, status, Counters(c), now)

(***************************************************************************)
(* The session store as the drivers use it: a manager is the record of its *)
(* table and its base directory, and a call is one step, its I/O outcome   *)
(* io being "ok" or the I/O error saveLocked returns with; the failed      *)
(* Encode comes twice, by what its Write left in the temp file.            *)
(***************************************************************************)
SaveOutcomes ==
    {"ok", "open temp session file", "encode session", "encode session: no byte written",
     "close temp session file", "atomic rename session file"}

\* The error saveLocked returns with in the outcome io.
SaveError(io) ==
    IF io = "ok" THEN ""
    ELSE IF io = "encode session: no byte written" THEN "encode session"
    ELSE io

NewManager == [sessions |-> NoSessions, disk |-> EmptyDir]

\* saveLocked of the session sid of manager m: [m, err].
MgrSave(m, sid, io) ==
    LET s == m.sessions[sid]
        path == SessionPath(s.ID)
        full == WriteEntry(m.disk, TmpPath(path), JSONFile(MarshalSession(s)))
        torn == WriteEntry(m.disk, TmpPath(path), TornFile(MarshalSession(s)))
        none == WriteEntry(m.disk, TmpPath(path), EmptyFile)
    IN  IF TransferSessionValidate(s) # ""
        THEN [m |-> m, err |-> TransferSessionValidate(s)]
        ELSE IF io = "ok"
        THEN [m |-> [m EXCEPT !.disk = Rename(full, TmpPath(path), path)], err |-> ""]
        ELSE IF io = "encode session"
        THEN [m |-> [m EXCEPT !.disk = torn], err |-> SaveError(io)]
        ELSE IF io = "encode session: no byte written"
        THEN [m |-> [m EXCEPT !.disk = none], err |-> SaveError(io)]
        ELSE IF io \in {"close temp session file", "atomic rename session file"}
        THEN [m |-> [m EXCEPT !.disk = full], err |-> SaveError(io)]
        ELSE [m |-> m, err |-> SaveError(io)]

\* CreateSession(fileInfo) drawing the id: [m, err, id].
MgrCreateSession(m, fileInfo, id, now, io) ==
    LET s == [ZeroSession EXCEPT !.ID = id, !.File = fileInfo,
                                 !.Status = SessionStatusCreated,
                                 !.CreatedAt = now, !.UpdatedAt = now]
        t == [i \in DOMAIN m.sessions \cup {id} |->
                 IF i = id THEN s ELSE m.sessions[i]]
        saved == MgrSave([m EXCEPT !.sessions = t], id, io)
    IN  IF FileMetadataValidate(fileInfo) # ""
        THEN [m |-> m, err |-> FileMetadataValidate(fileInfo), id |-> <<>>]
        ELSE IF TransferSessionValidate(s) # ""
        THEN [m |-> m, err |-> TransferSessionValidate(s), id |-> <<>>]
        ELSE [m |-> saved.m, err |-> saved.err, id |-> id]

\* UpdateChunkStatus(sessionID, chunkID, status): [m, err].
MgrUpdateChunkStatus(m, sid, cid, status, now, io) ==
    IF sid \notin DOMAIN m.sessions
    THEN [m |-> m, err |-> "session not found"]
    ELSE MgrSave([m EXCEPT !.sessions[sid] =
                     UpdateChunkStatusMem(@, cid, status, now)], sid, io)

\* uuid.NewString: the ids in the order they are drawn.
UUIDs == <<"u1", "u2", "u3", "u4", "u5", "u6", "u7", "u8">>
NewUUID(drawn) == <<UUIDs[Cardinality(drawn) + 1]>>

(***************************************************************************)
(* The transfer: the sender process (cmd/sender), the TCP connections and  *)
(* the receiver process (cmd/receiver).                                    *)
(***************************************************************************)
\* Number of runs of the sender in one behaviour; run r dials connection r.
MaxRuns == 2
\* Size in MiB of the largest source file.
MaxFileSize == 6
\* Number of frames written by a peer that is not the sender.
MaxFrames == 3
\* Number of I/O errors met by the sender and the receiver.
MaxFaults == 1

Conns == 1 .. MaxRuns

FileName == "a.bin"

\* The source files: empty, and of the largest size.
SourceFiles == {<<>>, [i \in 1 .. MaxFileSize |-> i]}

\* The values of --chunk-size, in MiB.
ChunkSizeFlags == {0, 3}

\* main, lines 47-51: the descriptor of the source file.
FileMeta(content) ==
    [ZeroFile EXCEPT !.Name = FileName, !.Size = Len(content),
                     !.Hash = HashFileSHA256(content)]

ControlID == "__filemeta__"

\* How much of a frame has left the writer: fields whole fields, and a part
\* of the next one when part is TRUE.  A frame has at most four fields.
Whole == [fields |-> 4, part |-> FALSE]

\* TCPSender.Send: a frame on the wire, the JSON of the metadata and the
\* data; cut is Whole but for a frame the writer did not finish.
Frame(meta, data) == [meta |-> JSONBytes(MarshalChunk(meta)), data |-> data, cut |-> Whole]

(***************************************************************************)
(* The stream of a connection is the sequence of the fields written on it. *)
(* A field is a length (f = "u32" or "u64", its value n) or a byte string  *)
(* b of n > 0 bytes; part is TRUE for a last field of which the stream     *)
(* holds a part only.  The streams of the model are those Send writes,     *)
(* whole or cut, so that a length is the length of the field after it.     *)
(***************************************************************************)
\* binary.Write(&buf, binary.BigEndian, uint32(n)) and uint64(n)
U32Field(n) == [f |-> "u32", n |-> n, b |-> NoBytes, part |-> FALSE]
U64Field(n) == [f |-> "u64", n |-> n, b |-> NoBytes, part |-> FALSE]

\* buf.Write(b): nothing for an empty b.
BytesField(b) ==
    IF NumBytes(b) = 0 THEN <<>>
    ELSE <<[f |-> "bytes", n |-> NumBytes(b), b |-> b, part |-> FALSE]>>

\* TCPSender.Send, lines 46-61: the buffer of a frame.
FrameBuffer(metaBytes, chunk) ==
    <<U32Field(NumBytes(metaBytes))>> \o BytesField(metaBytes)
        \o <<U64Field(NumBytes(chunk))>> \o BytesField(chunk)

\* The stream that holds what cut says of the buffer.
CutAt(buffer, cut) ==
    IF cut.fields >= Len(buffer) THEN buffer
    ELSE SubSeq(buffer, 1, cut.fields)
             \o (IF cut.part THEN <<[buffer[cut.fields + 1] EXCEPT !.part = TRUE]>>
                 ELSE <<>>)

\* The ways of cutting a buffer after at least one byte of it and before
\* its last.
CutPoints(buffer) ==
    {[fields |-> k, part |-> p] : k \in 0 .. Len(buffer) - 1, p \in BOOLEAN}
        \ {[fields |-> 0, part |-> FALSE]}

\* The cut within the last field of a buffer, the payload of a chunk frame,
\* which is all of the frame but a few bytes.
PayloadCut(buffer) == [fields |-> Len(buffer) - 1, part |-> TRUE]

\* What a frame of the wire is on the stream.
OnWire(frame) == CutAt(FrameBuffer(frame.meta, frame.data), frame.cut)

\* TCPSender.Send(conn, chunk, metadata): the bytes written.
Send(chunk, metadata) == OnWire(Frame(metadata, chunk))

\* io.EOF and io.ErrUnexpectedEOF
EOF == "EOF"
ErrUnexpectedEOF == "unexpected EOF"

\* An Errorf that returns the error it was given.
ErrorfUnwrapped(msg, err) == err

\* fmt.Errorf(msg + ": %w", err)
Errorf(msg, err) == msg \o ": " \o err

\* io.ReadFull(conn, buf) with len(buf) = want at the end of the stream,
\* and binary.Read, which is a ReadFull of the size of the value: [err, n,
\* b, rest].  Nothing is read for want = 0.
ReadFull(stream, want) ==
    IF want = 0 THEN [err |-> "", n |-> 0, b |-> NoBytes, rest |-> stream]
    ELSE IF stream = <<>>
    THEN [err |-> EOF, n |-> 0, b |-> NoBytes, rest |-> stream]
    ELSE IF Head(stream).part
    THEN [err |-> ErrUnexpectedEOF, n |-> 0, b |-> NoBytes, rest |-> Tail(stream)]
    ELSE [err |-> "", n |-> Head(stream).n, b |-> Head(stream).b,
          rest |-> Tail(stream)]

\* What Receive returns with an error.
ReceiveError(err, rest) ==
    [err |-> err, data |-> NoBytes, meta |-> ZeroChunk, rest |-> rest]

\* TCPReceiver.Receive on a stream that has ended: [err, data, meta, rest],
\* rest being what is left of the stream.
ReceiveStream(stream) ==
    LET metaLen == ReadFull(stream, 4)
        metaBytes == ReadFull(metaLen.rest, metaLen.n)
        m == JSONUnmarshal(metaBytes.b)
        dataLen == ReadFull(metaBytes.rest, 8)
        data == ReadFull(dataLen.rest, dataLen.n)
        d == DecompressChunk(data.b)
    IN  IF metaLen.err = EOF THEN ReceiveError(EOF, metaLen.rest)
        ELSE IF metaLen.err # ""
        THEN ReceiveError(Errorf("read meta length", metaLen.err), metaLen.rest)
        ELSE IF metaBytes.err # ""
        THEN ReceiveError(Errorf("read meta", metaBytes.err), metaBytes.rest)
        ELSE IF m.err # ""
        THEN ReceiveError(Errorf("unmarshal metadata", m.err), metaBytes.rest)
        ELSE IF dataLen.err # ""
        THEN ReceiveError(Errorf("read data length", dataLen.err), dataLen.rest)
        ELSE IF data.err # ""
        THEN ReceiveError(Errorf("read data", data.err), data.rest)
        ELSE IF d.err # ""
        THEN ReceiveError(Errorf("decompress chunk", d.err), data.rest)
        ELSE [err |-> "", data |-> d.out, meta |-> UnmarshalChunk(m.obj),
              rest |-> data.rest]

\* A sender whose first frame has the id of the first chunk.
ControlFrameAsChunk(fileMeta) ==
    LET metaPayload == JSONBytes(MarshalFile(fileMeta))
    IN  Frame([ZeroChunk EXCEPT !.ID = DecimalString(0), !.Size = Len(metaPayload.seq),
                                !.Status = ChunkStatusPending],
              CompressChunk(metaPayload))

\* runTCPSender, lines 134-152: the control frame.
ControlFrame(fileMeta) ==
    LET metaPayload == JSONBytes(MarshalFile(fileMeta))
    IN  Frame([ZeroChunk EXCEPT !.ID = ControlID, !.Size = Len(metaPayload.seq),
                                !.Status = ChunkStatusPending],
              CompressChunk(metaPayload))

\* runTCPSender, lines 155-171: the frame of the chunk meta of session sid.
ChunkFrame(content, meta, sid) ==
    LET buf == RawBytes(SubSeq(content, meta.Offset + 1, meta.Offset + meta.Size))
    IN  Frame([meta EXCEPT !.SHA256 = HexEncode(HashChunk(buf)), !.SessionID = sid],
              CompressChunk(buf))

\* TCPReceiver.Receive of a frame of the wire, the last one of the stream
\* when it is cut: [err, data, meta, rest].
Receive(frame) == ReceiveStream(OnWire(frame))

\* A scratch path without the session id.
PartPathChunkOnly(sid, cid) == <<cid, ".part">>

\* fmt.Sprintf("%s_%s.part", sessionID, meta.ID)
PartPath(sid, cid) == sid \o <<"_", cid, ".part">>

NoFiles == [n \in {} |-> NoBytes]

\* The orders sort.Slice may leave the chunks in: by offset, chunks of equal
\* offset in any order.  Any order at all, for a sort that does not sort:
SortByOffsetUnsorted(chunks) ==
    {o \in [1 .. Cardinality(DOMAIN chunks) -> DOMAIN chunks] :
        \A i, j \in DOMAIN o : o[i] = o[j] => i = j}

SortByOffset(chunks) ==
    {o \in [1 .. Cardinality(DOMAIN chunks) -> DOMAIN chunks] :
        /\ \A i, j \in DOMAIN o : o[i] = o[j] => i = j
        /\ \A i, j \in DOMAIN o : i < j => chunks[o[i]].Offset <= chunks[o[j]].Offset}

\* A write that starts at the head of the file whatever the descriptor's
\* offset.
WriteAtStart(content, pos, data) ==
    [i \in 1 .. (IF Len(data) > Len(content) THEN Len(data) ELSE Len(content)) |->
        IF i <= Len(data) THEN data[i] ELSE content[i]]

\* out.Write(data) on a descriptor at offset pos of a file of the given
\* content: the bytes from pos on are overwritten, the file grows as
\* needed, with zeros up to pos when it is shorter; a write of no byte
\* leaves the file as it is.
WriteAt(content, pos, data) ==
    IF data = <<>> THEN content
    ELSE [i \in 1 .. (IF pos + Len(data) > Len(content) THEN pos + Len(data)
                      ELSE Len(content)) |->
             IF i > pos /\ i <= pos + Len(data) THEN data[i - pos]
             ELSE IF i <= Len(content) THEN content[i] ELSE 0]

\* The sender before its first run and the receiver before its first
\* connection.
NoRun == [phase |-> "off", sid |-> <<>>, metas |-> <<>>, idx |-> 0]

NoHandler ==
    [phase |-> "idle", sid |-> <<>>, creating |-> <<>>, meta |-> ZeroChunk,
     data |-> NoBytes,
     order |-> <<>>, pos |-> 0, eof |-> "", storefail |-> FALSE,
     dropped |-> FALSE, result |-> ""]

\* No function is under examination.
NoCall == [fn |-> ""]

DriverIdle ==
    /\ dclock = 0
    /\ uuids = {}
    /\ source = <<>>
    /\ chunkSizeFlag = 0
    /\ smgr = NewManager
    /\ snd = NoRun
    /\ runs = <<>>
    /\ wire = [c \in Conns |-> <<>>]
    /\ wstate = [c \in Conns |-> "none"]
    /\ injected = 0
    /\ faults = 0
    /\ rmgr = NewManager
    /\ rcv = [c \in Conns |-> NoHandler]
    /\ parts = NoFiles
    /\ output = NoFiles

(***************************************************************************)
(* The calls of the session store.  A call is a sequence of steps of its   *)
(* worker; the steps between Lock and Unlock are taken with lock = w.      *)
(***************************************************************************)
\* A manager whose methods take no mutex.
CanLockNoMutex == TRUE

\* m.mu.Lock(): the mutex can be taken when no worker holds it.
CanLock == lock = 0

\* What worker w returns with: the call, its error and the table before and
\* after it.
Return(w, err) ==
    [op |-> pc[w].op, file |-> pc[w].file, sid |-> pc[w].sid, cid |-> pc[w].cid,
     status |-> pc[w].status, err |-> err, at |-> clock,
     before |-> pc[w].before, after |-> sessions]

\* CreateSession, lines 78-100: validate the descriptor, draw a fresh id,
\* build the session and insert it in the table under the lock.
CreateSession(w, f) ==
    /\ alive /\ pc[w].step = "idle" /\ clock < MaxClock
    /\ clock' = clock + 1
    /\ IF FileMetadataValidate(f) # ""
       THEN /\ ret' = [ret EXCEPT ![w] =
                          [NoRet EXCEPT !.op = "create", !.file = f,
                                        !.at = clock',
                                        !.err = FileMetadataValidate(f),
                                        !.before = sessions, !.after = sessions]]
            /\ UNCHANGED <<sessions, disk, lock, pc, issued, alive, gen, baseDir, ctor, driverVars>>
       ELSE \E id \in SessionIDs \ issued :
              LET s == [ZeroSession EXCEPT !.ID = id, !.File = f,
                                           !.Status = SessionStatusCreated,
                                           !.CreatedAt = clock', !.UpdatedAt = clock']
              IN  /\ TransferSessionValidate(s) = ""
                  /\ CanLock
                  /\ issued' = issued \cup {id}
                  /\ sessions' = [i \in DOMAIN sessions \cup {id} |->
                                     IF i = id THEN s ELSE sessions[i]]
                  /\ pc' = [pc EXCEPT ![w] =
                               [IdlePC EXCEPT !.step = "save_lock", !.op = "create",
                                              !.file = f,
                                              !.sid = id, !.before = sessions]]
                  /\ UNCHANGED <<disk, lock, ret, alive, gen, baseDir, ctor, driverVars>>

\* SaveSession, lines 155-158: take the lock, then saveLocked.
SaveSession(w) ==
    /\ pc[w].step = "save_lock"
    /\ CanLock
    /\ lock' = w
    /\ pc' = [pc EXCEPT ![w].step = "save_open"]
    /\ UNCHANGED <<sessions, disk, ret, clock, issued, alive, gen, baseDir, ctor, driverVars>>

\* An UpdateChunkStatus that enters an unknown session id in the table, as
\* it does with an unknown chunk id, before it returns the error.
UpdateChunkStatusLazySession(w, sid, cid, status) ==
    /\ alive /\ pc[w].step = "idle" /\ clock < MaxClock
    /\ CanLock
    /\ clock' = clock + 1
    /\ IF sid \notin DOMAIN sessions
       THEN /\ sessions' = [i \in DOMAIN sessions \cup {sid} |->
                               IF i = sid THEN [ZeroSession EXCEPT !.ID = sid]
                               ELSE sessions[i]]
            /\ ret' = [ret EXCEPT ![w] =
                          [NoRet EXCEPT !.op = "update", !.sid = sid, !.cid = cid,
                                        !.status = status, !.at = clock',
                                        !.err = "session not found",
                                        !.before = sessions, !.after = sessions']]
            /\ UNCHANGED <<disk, lock, pc, issued, alive, gen, baseDir, ctor, driverVars>>
       ELSE /\ lock' = w
            /\ pc' = [pc EXCEPT ![w] =
                         [IdlePC EXCEPT !.step = "chunk", !.op = "update", !.sid = sid,
                                        !.cid = cid, !.status = status,
                                        !.before = sessions]]
            /\ UNCHANGED <<sessions, disk, ret, issued, alive, gen, baseDir, ctor, driverVars>>

\* UpdateChunkStatus, lines 121-128: take the lock and look the session up.
UpdateChunkStatus(w, sid, cid, status) ==
    /\ alive /\ pc[w].step = "idle" /\ clock < MaxClock
    /\ CanLock
    /\ clock' = clock + 1
    /\ IF sid \notin DOMAIN sessions
       THEN /\ ret' = [ret EXCEPT ![w] =
                          [NoRet EXCEPT !.op = "update", !.sid = sid, !.cid = cid,
                                        !.status = status, !.at = clock',
                                        !.err = "session not found",
                                        !.before = sessions, !.after = sessions]]
            /\ UNCHANGED <<sessions, disk, lock, pc, issued, alive, gen, baseDir, ctor, driverVars>>
       ELSE /\ lock' = w
            /\ pc' = [pc EXCEPT ![w] =
                         [IdlePC EXCEPT !.step = "chunk", !.op = "update", !.sid = sid,
                                        !.cid = cid, !.status = status,
                                        !.before = sessions]]
            /\ UNCHANGED <<sessions, disk, ret, issued, alive, gen, baseDir, ctor, driverVars>>

\* UpdateChunkStatus, lines 130-138: the chunk is found, or created and
\* inserted in s.Chunks.
UpdateChunkStatusChunk(w) ==
    /\ pc[w].step = "chunk"
    /\ sessions' = [sessions EXCEPT ![pc[w].sid] =
                       FindOrCreateChunk(@, pc[w].cid, clock)]
    /\ pc' = [pc EXCEPT ![w].step = "status"]
    /\ UNCHANGED <<disk, lock, ret, clock, issued, alive, gen, baseDir, ctor, driverVars>>

\* UpdateChunkStatus, lines 140-141: chunk.Status and chunk.UpdatedAt.
UpdateChunkStatusStatus(w) ==
    /\ pc[w].step = "status"
    /\ sessions' = [sessions EXCEPT ![pc[w].sid] =
                       SetChunkStatus(@, pc[w].cid, pc[w].status, clock)]
    /\ pc' = [pc EXCEPT ![w].step = "count"]
    /\ UNCHANGED <<disk, lock, ret, clock, issued, alive, gen, baseDir, ctor, driverVars>>

\* UpdateChunkStatus, lines 143-148: the read of s.Completed++ / s.Failed++.
UpdateChunkStatusRead(w) ==
    /\ pc[w].step = "count"
    /\ pc' = [pc EXCEPT ![w].step = "bump", ![w].base = Counters(sessions[pc[w].sid])]
    /\ UNCHANGED <<sessions, disk, lock, ret, clock, issued, alive, gen, baseDir, ctor, driverVars>>

\* UpdateChunkStatus, lines 143-149: the write of the counter, s.UpdatedAt.
UpdateChunkStatusWrite(w) ==
    /\ pc[w].step = "bump"
    /\ sessions' = [sessions EXCEPT ![pc[w].sid] =
                       BumpCounter(@, pc[w].status, pc[w].base, clock)]
    /\ pc' = [pc EXCEPT ![w].step = "save_open"]
    /\ UNCHANGED <<disk, lock, ret, clock, issued, alive, gen, baseDir, ctor, driverVars>>

\* The call of w returns err: the deferred Unlock runs.
Unlock(w, err) ==
    /\ ret' = [ret EXCEPT ![w] = Return(w, err)]
    /\ pc' = [pc EXCEPT ![w] = IdlePC]
    /\ lock' = IF lock = w THEN 0 ELSE lock

\* GetSession(id) on the table: [err, s], err = "" on success.
GetSession(table, id) ==
    IF id \notin DOMAIN table
    THEN [err |-> "session not found", s |-> ZeroSession]
    ELSE [err |-> "", s |-> table[id]]

\* The temp file saveLocked writes for the session of w, and its final path.
FinalPathOf(w) == SessionPath(sessions[pc[w].sid].ID)
TmpPathOf(w) == TmpPath(FinalPathOf(w))

\* saveLocked, lines 163-172: validate, create or truncate the temp file.
saveLockedOpen(w) ==
    /\ pc[w].step = "save_open"
    /\ IF TransferSessionValidate(sessions[pc[w].sid]) # ""
       THEN /\ Unlock(w, TransferSessionValidate(sessions[pc[w].sid]))
            /\ UNCHANGED <<sessions, disk, clock, issued, alive, gen, baseDir, ctor, driverVars>>
       ELSE /\ disk' = WriteEntry(disk, TmpPathOf(w), EmptyFile)
            /\ pc' = [pc EXCEPT ![w].step = "save_write"]
            /\ UNCHANGED <<sessions, lock, ret, clock, issued, alive, gen, baseDir, ctor, driverVars>>

\* saveLocked, lines 173-178: encode the session into the temp file.
saveLockedEncode(w) ==
    /\ pc[w].step = "save_write"
    /\ disk' = WriteEntry(disk, TmpPathOf(w),
                          JSONFile(MarshalSession(sessions[pc[w].sid])))
    /\ pc' = [pc EXCEPT ![w].step = "save_close"]
    /\ UNCHANGED <<sessions, lock, ret, clock, issued, alive, gen, baseDir, ctor, driverVars>>

\* saveLocked, lines 179-181: close the temp file.
saveLockedClose(w) ==
    /\ pc[w].step = "save_close"
    /\ pc' = [pc EXCEPT ![w].step = "save_rename"]
    /\ UNCHANGED <<sessions, disk, lock, ret, clock, issued, alive, gen, baseDir, ctor, driverVars>>

\* A saveLocked that returns without renaming the temp file.
RenameTmpSkipped(dsk, w) == dsk

\* The directory after the rename of saveLocked.
RenameTmp(dsk, w) == Rename(dsk, TmpPathOf(w), FinalPathOf(w))

\* saveLocked, lines 182-185: rename the temp file over the final path and
\* return; the rename fails when the temp file is gone.
saveLockedRename(w) ==
    /\ pc[w].step = "save_rename"
    /\ IF TmpPathOf(w) \in DOMAIN disk
       THEN /\ disk' = RenameTmp(disk, w)
            /\ Unlock(w, "")
       ELSE /\ disk' = disk
            /\ Unlock(w, "atomic rename session file")
    /\ UNCHANGED <<sessions, clock, issued, alive, gen, baseDir, ctor, driverVars>>

\* What the temp file may hold when the write is cut short: nothing, or a
\* strict prefix of the encoding.
CutShort(w) == {EmptyFile, TornFile(MarshalSession(sessions[pc[w].sid]))}

\* saveLocked: the I/O error returns of lines 170-184.  A failed open,
\* close or rename leaves the directory as it is; a failed write leaves the
\* temp file cut short.
saveLockedFail(w) ==
    /\ pc[w].step \in {"save_open", "save_write", "save_close", "save_rename"}
    /\ TransferSessionValidate(sessions[pc[w].sid]) = ""
    /\ \/ /\ pc[w].step = "save_open"
          /\ disk' = disk
          /\ Unlock(w, "open temp session file")
       \/ /\ pc[w].step = "save_write"
          /\ \E c \in CutShort(w) : disk' = WriteEntry(disk, TmpPathOf(w), c)
          /\ Unlock(w, "encode session")
       \/ /\ pc[w].step = "save_close"
          /\ disk' = disk
          /\ Unlock(w, "close temp session file")
       \/ /\ pc[w].step = "save_rename"
          /\ disk' = disk
          /\ Unlock(w, "atomic rename session file")
    /\ UNCHANGED <<sessions, clock, issued, alive, gen, baseDir, ctor, driverVars>>

\* The process dies: its memory is lost (the callers with it), the directory
\* stays; a write in progress may have reached the temp file in part.
Crash ==
    /\ alive
    /\ alive' = FALSE
    /\ sessions' = NoSessions
    /\ lock' = 0
    /\ pc' = [w \in Workers |-> IdlePC]
    /\ \/ disk' = disk
       \/ \E w \in Workers :
            /\ pc[w].step = "save_write"
            /\ disk' = WriteEntry(disk, TmpPathOf(w),
                                  TornFile(MarshalSession(sessions[pc[w].sid])))
    /\ ret' = [w \in Workers |-> NoRet]
    /\ UNCHANGED <<clock, issued, gen, baseDir, ctor, driverVars>>

\* NewSessionManager, lines 34-50: a new manager on baseDir, its table
\* loaded from the directory.  baseDir is "" (the empty string), or names
\* a regular file ("file": MkdirAll fails), a directory that cannot be
\* listed ("nolist": ReadDir fails) or a directory that can ("dir").
NewSessionManager ==
    /\ \A w \in Workers : pc[w].step = "idle"
    /\ clock < MaxClock
    /\ clock' = clock + 1
    /\ gen' = clock'
    /\ ctor' = IF baseDir = "" THEN "baseDir must not be empty"
               ELSE IF baseDir = "file" THEN "creating sessions dir"
               ELSE IF baseDir = "nolist" THEN "read sessions dir"
               ELSE "ok"
    /\ alive' = (ctor' = "ok")
    /\ sessions' = IF ctor' = "ok" THEN loadExisting(disk) ELSE NoSessions
    /\ UNCHANGED <<disk, lock, pc, ret, issued, baseDir, driverVars>>

\* A manager just constructed on an empty directory.
StoreIdle ==
    /\ sessions = NoSessions
    /\ disk = EmptyDir
    /\ lock = 0
    /\ pc = [w \in Workers |-> IdlePC]
    /\ ret = [w \in Workers |-> NoRet]
    /\ clock = 0
    /\ issued = {}
    /\ alive = TRUE
    /\ gen = 0
    /\ baseDir = "dir"
    /\ ctor = "ok"

Init ==
    /\ StoreIdle
    /\ DriverIdle
    /\ call = NoCall

vars == <<storeVars, driverVars>>

\* The goroutine of a driver's main function.
Main == CHOOSE w \in Workers : TRUE

(***************************************************************************)
(* Spec: one caller at a time on one base directory, with the I/O errors   *)
(* of saveLocked, crashes of the process and restarts.                     *)
(***************************************************************************)
Next ==
    \/ \E f \in FileInputs : CreateSession(Main, f)
    \/ SaveSession(Main)
    \/ \E sid \in SessionIDs, cid \in ChunkIDs, st \in UpdateStatuses :
          UpdateChunkStatus(Main, sid, cid, st)
    \/ UpdateChunkStatusChunk(Main)
    \/ UpdateChunkStatusStatus(Main)
    \/ UpdateChunkStatusRead(Main)
    \/ UpdateChunkStatusWrite(Main)
    \/ saveLockedOpen(Main)
    \/ saveLockedEncode(Main)
    \/ saveLockedClose(Main)
    \/ saveLockedRename(Main)
    \/ saveLockedFail(Main)
    \/ Crash
    \/ NewSessionManager

Spec == Init /\ [][Next]_vars

(***************************************************************************)
(* SpecConc: NumWorkers goroutines, each making one UpdateChunkStatus call *)
(* on the one session of a manager, with no I/O error and no crash.        *)
(***************************************************************************)
ConcID == CHOOSE id \in SessionIDs : TRUE

ConcSession ==
    [ZeroSession EXCEPT !.ID = ConcID, !.File = ValidFile,
                        !.Status = SessionStatusCreated]

InitConc ==
    /\ sessions = [i \in {ConcID} |-> ConcSession]
    /\ disk = WriteEntry(EmptyDir, SessionPath(ConcID),
                         JSONFile(MarshalSession(ConcSession)))
    /\ lock = 0
    /\ pc = [w \in Workers |-> IdlePC]
    /\ ret = [w \in Workers |-> NoRet]
    /\ clock = 0
    /\ issued = {ConcID}
    /\ alive = TRUE
    /\ gen = 0
    /\ baseDir = "dir"
    /\ ctor = "ok"
    /\ DriverIdle
    /\ call = NoCall

NextConc ==
    \/ \E w \in Workers, cid \in ChunkIDs, st \in UpdateStatuses :
          /\ ret[w].op = ""
          /\ UpdateChunkStatus(w, ConcID, cid, st)
    \/ \E w \in Workers : UpdateChunkStatusChunk(w)
    \/ \E w \in Workers : UpdateChunkStatusStatus(w)
    \/ \E w \in Workers : UpdateChunkStatusRead(w)
    \/ \E w \in Workers : UpdateChunkStatusWrite(w)
    \/ \E w \in Workers : saveLockedOpen(w)
    \/ \E w \in Workers : saveLockedEncode(w)
    \/ \E w \in Workers : saveLockedClose(w)
    \/ \E w \in Workers : saveLockedRename(w)

SpecConc == InitConc /\ [][NextConc]_vars

(***************************************************************************)
(* PersistCheckpoint, lines 220-260.  It takes the read lock for the       *)
(* lookup only; the scan of s.Chunks and the writes to the directory are   *)
(* made with no lock held.  An open file is an inode the descriptor keeps  *)
(* through renames: fd is the path at which the inode of the descriptor is *)
(* linked now, Unlinked once another file was renamed over it.             *)
(***************************************************************************)
\* json.Encoder.Encode(&cp): the JSON object of a SessionCheckpoint.
MarshalCheckpoint(cp) ==
    [session_id |-> cp.SessionID, completed_chunks |-> cp.CompletedChunks,
     pending_chunks |-> cp.PendingChunks, total_chunks |-> cp.TotalChunks,
     last_update_time |-> cp.LastUpdateTime]

\* filepath.Join(m.baseDir, s.ID+".checkpoint.json")
CheckpointPath(id) == id \o <<".checkpoint", ".json">>

\* The orders in which a range over a map may list the keys in set.
Listings(set) ==
    {l \in [1 .. Cardinality(set) -> set] : \A i, j \in DOMAIN l : l[i] = l[j] => i = j}

\* m.mu.RLock(): the read lock can be taken when no writer holds the mutex.
CanRLock == lock = 0

\* Where the inode of a descriptor is once its path was renamed over.
Unlinked == <<"(unlinked)">>

\* The descriptors of the other workers after w renamed from over to.
FollowRename(w, from, to) ==
    [v \in Workers |->
        IF v = w THEN IdlePC
        ELSE IF pc[v].fd = from THEN [pc[v] EXCEPT !.fd = to]
        ELSE IF pc[v].fd = to THEN [pc[v] EXCEPT !.fd = Unlinked]
        ELSE pc[v]]

\* Lines 221-226: look the session up under the read lock.
PersistCheckpoint(w, sid) ==
    /\ alive /\ pc[w].step = "idle" /\ clock < MaxClock
    /\ CanRLock
    /\ clock' = clock + 1
    /\ IF sid \notin DOMAIN sessions
       THEN /\ ret' = [ret EXCEPT ![w] =
                          [NoRet EXCEPT !.op = "checkpoint", !.sid = sid,
                                        !.at = clock',
                                        !.err = "session not found",
                                        !.before = sessions, !.after = sessions]]
            /\ pc' = pc
       ELSE /\ pc' = [pc EXCEPT ![w] =
                         [IdlePC EXCEPT !.step = "ckpt_scan", !.op = "checkpoint",
                                        !.sid = sid, !.before = sessions]]
            /\ ret' = ret
    /\ UNCHANGED <<sessions, disk, lock, issued, alive, gen, baseDir, ctor, driverVars>>

\* Line 229: the range over s.Chunks begins, with no lock held; keys are
\* the chunks in the map now, which the range visits; one inserted later
\* may be visited or not.
CheckpointScan(w) ==
    /\ pc[w].step = "ckpt_scan"
    /\ pc' = [pc EXCEPT ![w].step = "ckpt_range",
                        ![w].keys = DOMAIN sessions[pc[w].sid].Chunks]
    /\ UNCHANGED <<sessions, disk, lock, ret, clock, issued, alive, gen, baseDir, ctor, driverVars>>

\* The chunks the range of w has visited.
Visited(w) ==
    {pc[w].cp.CompletedChunks[i] : i \in DOMAIN pc[w].cp.CompletedChunks}
        \cup {pc[w].cp.PendingChunks[i] : i \in DOMAIN pc[w].cp.PendingChunks}

\* Lines 229-236, one turn of the range: a chunk not yet visited, in an
\* order that is not fixed, is appended to completed or to pending by the
\* status it has now.
CheckpointVisit(w) ==
    /\ pc[w].step = "ckpt_range"
    /\ LET s == sessions[pc[w].sid]
       IN  \E id \in DOMAIN s.Chunks \ Visited(w) :
              pc' = IF s.Chunks[id].Status = ChunkStatusCompleted
                    THEN [pc EXCEPT ![w].cp.CompletedChunks = Append(@, id)]
                    ELSE [pc EXCEPT ![w].cp.PendingChunks = Append(@, id)]
    /\ UNCHANGED <<sessions, disk, lock, ret, clock, issued, alive, gen, baseDir, ctor, driverVars>>

\* Lines 236-244: the range ends, every chunk that was in the map when it
\* began visited, and the checkpoint is built.
CheckpointBuild(w) ==
    /\ pc[w].step = "ckpt_range"
    /\ pc[w].keys \subseteq Visited(w)
    /\ LET s == sessions[pc[w].sid]
       IN  pc' = [pc EXCEPT ![w].step = "ckpt_open",
                           ![w].keys = {},
                           ![w].cp.SessionID = s.ID,
                           ![w].cp.TotalChunks = s.TotalChunks,
                           ![w].cp.LastUpdateTime = clock]
    /\ UNCHANGED <<sessions, disk, lock, ret, clock, issued, alive, gen, baseDir, ctor, driverVars>>

\* Lines 229-236 while another goroutine is at the insert of line 137: the
\* runtime may detect the concurrent map iteration and map write, which
\* ends the process.
CheckpointScanFatal(w) ==
    /\ pc[w].step = "ckpt_range"
    /\ \E v \in Workers \ {w} :
          /\ pc[v].step = "chunk"
          /\ pc[v].sid = pc[w].sid
          /\ pc[v].cid \notin DOMAIN sessions[pc[v].sid].Chunks
    /\ alive' = FALSE
    /\ sessions' = NoSessions
    /\ lock' = 0
    /\ pc' = [v \in Workers |-> IdlePC]
    /\ ret' = [v \in Workers |-> NoRet]
    /\ UNCHANGED <<disk, clock, issued, gen, baseDir, ctor, driverVars>>

\* Lines 247-253: create the temp file, or truncate the one that is there.
CheckpointOpen(w) ==
    /\ pc[w].step = "ckpt_open"
    /\ LET tmp == TmpPath(CheckpointPath(pc[w].cp.SessionID))
       IN  /\ disk' = WriteEntry(disk, tmp, EmptyFile)
           /\ pc' = [pc EXCEPT ![w].step = "ckpt_write", ![w].fd = tmp]
    /\ UNCHANGED <<sessions, lock, ret, clock, issued, alive, gen, baseDir, ctor, driverVars>>

\* What the file of a descriptor holds after the encoding obj was written
\* at offset 0 of it: obj when the file was empty or held obj; when it held
\* another encoding, obj or, that encoding being the longer one, obj
\* followed by the rest of it.
Overwrite(content, obj) ==
    IF content.kind = "json" /\ content.obj # obj
    THEN {JSONFile(obj), MixedFile(obj)}
    ELSE IF content.kind = "mixed"
    THEN {JSONFile(obj), MixedFile(obj)}
    ELSE {JSONFile(obj)}

\* Lines 254-257: encode the checkpoint into the descriptor.
CheckpointEncode(w) ==
    /\ pc[w].step = "ckpt_write"
    /\ IF pc[w].fd \in DOMAIN disk
       THEN \E c \in Overwrite(disk[pc[w].fd], MarshalCheckpoint(pc[w].cp)) :
               disk' = WriteEntry(disk, pc[w].fd, c)
       ELSE disk' = disk
    /\ pc' = [pc EXCEPT ![w].step = "ckpt_close"]
    /\ UNCHANGED <<sessions, lock, ret, clock, issued, alive, gen, baseDir, ctor, driverVars>>

\* Lines 258-260: close the descriptor.
CheckpointClose(w) ==
    /\ pc[w].step = "ckpt_close"
    /\ pc' = [pc EXCEPT ![w].step = "ckpt_rename", ![w].fd = NoFd]
    /\ UNCHANGED <<sessions, disk, lock, ret, clock, issued, alive, gen, baseDir, ctor, driverVars>>

\* Line 261: rename the temp file over the checkpoint and return; the
\* rename fails when the temp file is gone.
CheckpointRename(w) ==
    /\ pc[w].step = "ckpt_rename"
    /\ LET path == CheckpointPath(pc[w].cp.SessionID)
           tmp == TmpPath(path)
       IN  IF tmp \in DOMAIN disk
           THEN /\ disk' = Rename(disk, tmp, path)
                /\ pc' = FollowRename(w, tmp, path)
                /\ ret' = [ret EXCEPT ![w] = Return(w, "")]
           ELSE /\ disk' = disk
                /\ pc' = [pc EXCEPT ![w] = IdlePC]
                /\ ret' = [ret EXCEPT ![w] = Return(w, "rename")]
    /\ UNCHANGED <<sessions, lock, clock, issued, alive, gen, baseDir, ctor, driverVars>>

(***************************************************************************)
(* SpecCkpt: NumWorkers goroutines, each making one call on the one        *)
(* session of a manager, a PersistCheckpoint or an UpdateChunkStatus, with *)
(* no I/O error.                                                           *)
(***************************************************************************)
NextCkpt ==
    \/ \E w \in Workers :
          /\ ret[w].op = ""
          /\ PersistCheckpoint(w, ConcID)
    \/ \E w \in Workers, cid \in ChunkIDs :
          /\ ret[w].op = ""
          /\ UpdateChunkStatus(w, ConcID, cid, ChunkStatusCompleted)
    \/ \E w \in Workers : CheckpointScan(w)
    \/ \E w \in Workers : CheckpointVisit(w)
    \/ \E w \in Workers : CheckpointBuild(w)
    \/ \E w \in Workers : CheckpointScanFatal(w)
    \/ \E w \in Workers : CheckpointOpen(w)
    \/ \E w \in Workers : CheckpointEncode(w)
    \/ \E w \in Workers : CheckpointClose(w)
    \/ \E w \in Workers : CheckpointRename(w)
    \/ \E w \in Workers : UpdateChunkStatusChunk(w)
    \/ \E w \in Workers : UpdateChunkStatusStatus(w)
    \/ \E w \in Workers : UpdateChunkStatusRead(w)
    \/ \E w \in Workers : UpdateChunkStatusWrite(w)
    \/ \E w \in Workers : saveLockedOpen(w)
    \/ \E w \in Workers : saveLockedEncode(w)
    \/ \E w \in Workers : saveLockedClose(w)
    \/ \E w \in Workers : saveLockedRename(w)

SpecCkpt == InitConc /\ [][NextCkpt]_vars

(***************************************************************************)
(* GetMissingChunks, lines 263-277, and SpecProj: one caller that updates  *)
(* chunk statuses of a session of two chunks, asks for its missing chunks  *)
(* and persists its checkpoint, with no I/O error.                         *)
(***************************************************************************)
\* A GetMissingChunks that lists the pending chunks only.
GetMissingChunksPendingOnly(table, sid) ==
    IF sid \notin DOMAIN table THEN {<<>>}
    ELSE Listings({c \in DOMAIN table[sid].Chunks :
                     table[sid].Chunks[c].Status = ChunkStatusPending})

\* GetMissingChunks(sessionID) on the table: the lists it may return, the
\* range over s.Chunks being in no fixed order; nil is <<>>.
GetMissingChunks(table, sid) ==
    IF sid \notin DOMAIN table THEN {<<>>}
    ELSE Listings({c \in DOMAIN table[sid].Chunks :
                     table[sid].Chunks[c].Status # ChunkStatusCompleted})

\* A call of GetMissingChunks, under the read lock.
GetMissingChunksCall(w, sid) ==
    /\ alive /\ pc[w].step = "idle" /\ clock < MaxClock
    /\ CanRLock
    /\ clock' = clock + 1
    /\ \E missing \in GetMissingChunks(sessions, sid) :
          call' = [fn |-> "GetMissingChunks", sid |-> sid, at |-> clock',
                   missing |-> missing]
    /\ UNCHANGED <<sessions, disk, lock, pc, ret, issued, alive, gen, baseDir, ctor,
                   dclock, uuids, source, chunkSizeFlag, smgr, snd, runs, wire,
                   wstate, injected, faults, rmgr, rcv, parts, output>>

\* The number of chunks the session of SpecProj was created for.
ProjTotal == Cardinality(ChunkIDs)

\* The session as created, and after its first chunk was recorded
\* completed.
ProjSessions ==
    {[ConcSession EXCEPT !.TotalChunks = ProjTotal],
     UpdateChunkStatusMem([ConcSession EXCEPT !.TotalChunks = ProjTotal],
                          "0", ChunkStatusCompleted, 0)}

InitProj ==
    /\ sessions \in {[i \in {ConcID} |-> s] : s \in ProjSessions}
    /\ disk = WriteEntry(EmptyDir, SessionPath(ConcID),
                         JSONFile(MarshalSession(sessions[ConcID])))
    /\ lock = 0
    /\ pc = [w \in Workers |-> IdlePC]
    /\ ret = [w \in Workers |-> NoRet]
    /\ clock = 0
    /\ issued = {ConcID}
    /\ alive = TRUE
    /\ gen = 0
    /\ baseDir = "dir"
    /\ ctor = "ok"
    /\ DriverIdle
    /\ call = NoCall

NextProj ==
    \/ \E sid \in SessionIDs, cid \in ChunkIDs, st \in ChunkStatuses :
          UpdateChunkStatus(Main, sid, cid, st)
    \/ UpdateChunkStatusChunk(Main)
    \/ UpdateChunkStatusStatus(Main)
    \/ UpdateChunkStatusRead(Main)
    \/ UpdateChunkStatusWrite(Main)
    \/ saveLockedOpen(Main)
    \/ saveLockedEncode(Main)
    \/ saveLockedClose(Main)
    \/ saveLockedRename(Main)
    \/ \E sid \in SessionIDs : GetMissingChunksCall(Main, sid)
    \/ \E sid \in SessionIDs : PersistCheckpoint(Main, sid)
    \/ CheckpointScan(Main)
    \/ CheckpointVisit(Main)
    \/ CheckpointBuild(Main)
    \/ CheckpointOpen(Main)
    \/ CheckpointEncode(Main)
    \/ CheckpointClose(Main)
    \/ CheckpointRename(Main)

SpecProj == InitProj /\ [][NextProj]_vars

(***************************************************************************)
(* SpecSave: a caller that edits the session it was given a pointer to and *)
(* saves it, as the sender does with TotalChunks, and that loads session   *)
(* files, on a directory that may hold the file of a session that does not *)
(* validate.                                                               *)
(***************************************************************************)
\* The assignments the caller makes to the session before SaveSession: the
\* field and its new value.
SessionEdits ==
    {[field |-> "TotalChunks", int |-> 2, str |-> ""],
     [field |-> "TotalChunks", int |-> -1, str |-> ""],
     [field |-> "Completed", int |-> -1, str |-> ""],
     [field |-> "Failed", int |-> -1, str |-> ""],
     [field |-> "Status", int |-> 0, str |-> "transferring"],
     [field |-> "Status", int |-> 0, str |-> "invalid"],
     [field |-> "ID", int |-> 0, str |-> ""],
     [field |-> "File.Size", int |-> 0, str |-> ""]}

\* The session after the assignment.
ApplyEdit(s, edit) ==
    IF edit.field = "TotalChunks" THEN [s EXCEPT !.TotalChunks = edit.int]
    ELSE IF edit.field = "Completed" THEN [s EXCEPT !.Completed = edit.int]
    ELSE IF edit.field = "Failed" THEN [s EXCEPT !.Failed = edit.int]
    ELSE IF edit.field = "Status" THEN [s EXCEPT !.Status = edit.str]
    ELSE IF edit.field = "ID" THEN [s EXCEPT !.ID = <<>>]
    ELSE [s EXCEPT !.File.Size = edit.int]

\* The caller assigns to the session of id sid through its pointer and
\* calls SaveSession on it.
SaveSessionCall(w, sid, edit) ==
    /\ alive /\ pc[w].step = "idle" /\ clock < MaxClock
    /\ sid \in DOMAIN sessions
    /\ clock' = clock + 1
    /\ sessions' = [sessions EXCEPT ![sid] = ApplyEdit(@, edit)]
    /\ pc' = [pc EXCEPT ![w] =
                 [IdlePC EXCEPT !.step = "save_lock", !.op = "save", !.sid = sid,
                                !.before = sessions]]
    /\ UNCHANGED <<disk, lock, ret, issued, alive, gen, baseDir, ctor, driverVars>>

\* LoadSession(id), lines 189-205: the call returns the error, or the
\* session, which the result holds as the one entry of a table.
LoadSessionCall(w, id) ==
    /\ alive /\ pc[w].step = "idle" /\ clock < MaxClock
    /\ clock' = clock + 1
    /\ LET r == LoadSession(disk, id)
       IN  ret' = [ret EXCEPT ![w] =
                      [NoRet EXCEPT !.op = "load", !.sid = id, !.at = clock',
                                    !.err = r.err,
                                    !.before = sessions,
                                    !.after = IF r.err = "" THEN [i \in {id} |-> r.s]
                                              ELSE NoSessions]]
    /\ UNCHANGED <<sessions, disk, lock, pc, issued, alive, gen, baseDir, ctor, driverVars>>

\* The id of a session file another program left in the directory.
ForeignID == CHOOSE id \in SessionIDs : id # ConcID

\* The session files that hold a session Validate refuses, one for each of
\* its checks.
InvalidSessionFiles ==
    {JSONFile(MarshalSession(ApplyEdit([ConcSession EXCEPT !.ID = ForeignID], edit))) :
        edit \in {e \in SessionEdits :
                     TransferSessionValidate(ApplyEdit(ConcSession, e)) # ""}}

InitSave ==
    /\ sessions = [i \in {ConcID} |-> ConcSession]
    /\ \E c \in InvalidSessionFiles :
          disk = WriteEntry(WriteEntry(EmptyDir, SessionPath(ConcID),
                                       JSONFile(MarshalSession(ConcSession))),
                            SessionPath(ForeignID), c)
    /\ lock = 0
    /\ pc = [w \in Workers |-> IdlePC]
    /\ ret = [w \in Workers |-> NoRet]
    /\ clock = 0
    /\ issued = {ConcID}
    /\ alive = TRUE
    /\ gen = 0
    /\ baseDir = "dir"
    /\ ctor = "ok"
    /\ DriverIdle
    /\ call = NoCall

NextSave ==
    \/ \E edit \in SessionEdits : SaveSessionCall(Main, ConcID, edit)
    \/ \E id \in SessionIDs : LoadSessionCall(Main, id)
    \/ \E cid \in ChunkIDs : UpdateChunkStatus(Main, ConcID, cid, ChunkStatusCompleted)
    \/ SaveSession(Main)
    \/ UpdateChunkStatusChunk(Main)
    \/ UpdateChunkStatusStatus(Main)
    \/ UpdateChunkStatusRead(Main)
    \/ UpdateChunkStatusWrite(Main)
    \/ saveLockedOpen(Main)
    \/ saveLockedEncode(Main)
    \/ saveLockedClose(Main)
    \/ saveLockedRename(Main)
    \/ saveLockedFail(Main)

SpecSave == InitSave /\ [][NextSave]_vars

(***************************************************************************)
(* SpecLoad: NewSessionManager on a base directory of any content.         *)
(***************************************************************************)
\* A session as a completed transfer step leaves it, with the given id.
StoredSession(id) ==
    UpdateChunkStatusMem(
        [ZeroSession EXCEPT !.ID = id, !.File = ValidFile,
                            !.Status = SessionStatusCreated],
        "0", ChunkStatusCompleted, 0)

\* The JSON object of a SessionCheckpoint.
CheckpointObj ==
    [session_id |-> <<"u1">>, completed_chunks |-> <<"0">>,
     pending_chunks |-> <<>>, total_chunks |-> 1, last_update_time |-> 0]

\* A stored session that Validate refuses.
RefusedSession == [StoredSession(<<"u1">>) EXCEPT !.Completed = -1]

\* What an entry of the directory may be: a complete session file (of
\* either id), a session file followed by other bytes, a session file
\* whose content does not validate, alone or followed by other bytes, a
\* checkpoint, a cut-short or empty file, a subdirectory, a file that
\* cannot be opened.
EntryContents ==
    {JSONFile(MarshalSession(StoredSession(id))) : id \in SessionIDs}
        \cup {MixedFile(MarshalSession(StoredSession(<<"u2">>))),
              JSONFile(MarshalSession(RefusedSession)),
              MixedFile(MarshalSession(RefusedSession)),
              JSONFile(CheckpointObj),
              TornFile(MarshalSession(StoredSession(<<"u1">>))),
              EmptyFile,
              [kind |-> "dir", obj |-> NoObj],
              [kind |-> "noperm", obj |-> NoObj]}

EntryNames ==
    {<<"u1", ".json">>, <<"u2", ".json">>, <<"u1", ".json", ".tmp">>,
     <<"u1", ".checkpoint", ".json">>}

Directories ==
    UNION {[names -> EntryContents] : names \in SUBSET EntryNames}

InitLoad ==
    /\ sessions = NoSessions
    /\ disk \in Directories
    /\ lock = 0
    /\ pc = [w \in Workers |-> IdlePC]
    /\ ret = [w \in Workers |-> NoRet]
    /\ clock = 0
    /\ issued = {}
    /\ alive = FALSE
    /\ gen = 0
    /\ baseDir \in {"", "file", "nolist", "dir"}
    /\ ctor = "none"
    /\ DriverIdle
    /\ call = NoCall

NextLoad == NewSessionManager

SpecLoad == InitLoad /\ [][NextLoad]_vars

(***************************************************************************)
(* SpecClamp: the chunk size ChunkFile uses, for each requested size.      *)
(***************************************************************************)
\* The requested chunk sizes, in MiB.
RequestedSizes == -1 .. MaxChunkSize + 2

InitClamp ==
    /\ StoreIdle
    /\ DriverIdle
    /\ call \in {[fn |-> "clampSize", size |-> r, done |-> FALSE, out |-> 0] :
                    r \in RequestedSizes}

\* ChunkFile, lines 59-67 (clampSize in the later version of the package).
ClampCall ==
    /\ call.fn = "clampSize" /\ ~call.done
    /\ call' = [call EXCEPT !.done = TRUE, !.out = ClampChunkSize(call.size)]
    /\ UNCHANGED <<storeVars, dclock, uuids, source, chunkSizeFlag, smgr, snd, runs,
                   wire, wstate, injected, faults, rmgr, rcv, parts, output>>

NextClamp == ClampCall

SpecClamp == InitClamp /\ [][NextClamp]_vars

(***************************************************************************)
(* SpecChunk: ChunkFile called MaxCalls times on one unchanged file with   *)
(* one requested chunk size.                                               *)
(***************************************************************************)
\* The largest file chunked, in MiB, and the number of calls on it.
MaxBlocks == 12
MaxCalls == 2

\* The files: n blocks, each block different from the others.
ChunkerFiles == {[i \in 1 .. n |-> i] : n \in 0 .. MaxBlocks}

\* The requested chunk sizes: none, too small, the least, two in range and
\* too large.
ChunkerSizes == {-1, 0, 3, MinChunkSize, 6, 7, MaxChunkSize, MaxChunkSize + 1}

InitChunk ==
    /\ StoreIdle
    /\ DriverIdle
    /\ call \in {[fn |-> "ChunkFile", file |-> f, chunkSize |-> r, at |-> <<>>,
                   out |-> <<>>] : f \in ChunkerFiles, r \in ChunkerSizes}

\* One call of ChunkFile, at a reading of the clock that is the one of the
\* call before it or a later one.
ChunkFileCall ==
    /\ call.fn = "ChunkFile" /\ Len(call.out) < MaxCalls
    /\ \E now \in {dclock, dclock + 1} :
          /\ dclock' = now
          /\ call' = [call EXCEPT
                         !.at = Append(@, now),
                         !.out = Append(@, ChunkFile(call.file, call.chunkSize, now))]
    /\ UNCHANGED <<storeVars, uuids, source, chunkSizeFlag, smgr, snd, runs,
                   wire, wstate, injected, faults, rmgr, rcv, parts, output>>

NextChunk == ChunkFileCall

SpecChunk == InitChunk /\ [][NextChunk]_vars

(***************************************************************************)
(* cmd/sender.  A run of the sender is main (lines 22-81), then            *)
(* runTCPSender: connect and write the control frame, then for each chunk  *)
(* write its frame and record it completed, then close.  A run ends early  *)
(* when the process is killed or log.Fatalf exits it.                      *)
(***************************************************************************)
\* The number of I/O errors in the outcomes of one step.
Cost(ok, io) == (IF ok THEN 0 ELSE 1) + (IF io = "ok" THEN 0 ELSE 1)

\* The step takes n of the I/O errors a behaviour may have.
Faults(n) ==
    /\ faults + n <= MaxFaults
    /\ faults' = faults + n

\* The ids of the chunks completed in session s.
CompletedChunks(s) ==
    {c \in DOMAIN s.Chunks : s.Chunks[c].Status = ChunkStatusCompleted}

\* The record kept of a run: its session, whether it resumed it, the
\* chunks completed in the session as loaded, the number of chunks of the
\* file, the ids of the chunk frames written, and how it ended.
NewRun(sid, resumed, loaded, n) ==
    [sid |-> sid, resumed |-> resumed, loaded |-> loaded, n |-> n,
     frames |-> <<>>, exit |-> ""]

\* The sender process is gone: its table with it.
SenderExit(m, how) ==
    /\ snd' = NoRun
    /\ smgr' = [m EXCEPT !.sessions = NoSessions]
    /\ runs' = [runs EXCEPT ![Len(runs)].exit = how]

\* main, lines 22-81, with --resume resume ("" is <<>>): build the manager,
\* get or create the session, chunk the file, set and save total_chunks.
\* io1 is the outcome of the save of CreateSession, io2 that of line 79.
SenderMain(resume, io1, io2) ==
    /\ snd.phase = "off"
    /\ Len(runs) < MaxRuns
    /\ dclock' = dclock + 1
    /\ LET m0 == [smgr EXCEPT !.sessions = loadExisting(smgr.disk)]
           id == NewUUID(uuids)
           fresh == resume = <<>>
           valid == FileMetadataValidate(FileMeta(source)) = ""
           cr == MgrCreateSession(m0, FileMeta(source), id, dclock', io1)
           found == resume \in DOMAIN m0.sessions
           err1 == IF fresh THEN cr.err
                   ELSE IF found THEN "" ELSE "session not found"
           m1 == IF fresh THEN cr.m ELSE m0
           sid == IF fresh THEN id ELSE resume
           chunkMetas == ChunkFile(source, chunkSizeFlag, dclock')
           m2 == [m1 EXCEPT !.sessions[sid].TotalChunks = Len(chunkMetas)]
           sv == MgrSave(m2, sid, io2)
           loaded == IF found THEN CompletedChunks(m0.sessions[resume]) ELSE {}
       IN  /\ (~fresh \/ ~valid) => io1 = "ok"
           /\ err1 # "" => io2 = "ok"
           /\ Faults(Cost(TRUE, io1) + Cost(TRUE, io2))
           /\ uuids' = IF fresh /\ valid THEN uuids \cup {id} ELSE uuids
           /\ IF err1 # ""
              THEN /\ runs' = Append(runs, [NewRun(<<>>, ~fresh, {}, 0)
                                               EXCEPT !.exit = err1])
                   /\ smgr' = [m1 EXCEPT !.sessions = NoSessions]
                   /\ snd' = NoRun
              ELSE IF sv.err # ""
              THEN /\ runs' = Append(runs, [NewRun(sid, ~fresh, loaded,
                                                   Len(chunkMetas))
                                               EXCEPT !.exit = sv.err])
                   /\ smgr' = [sv.m EXCEPT !.sessions = NoSessions]
                   /\ snd' = NoRun
              ELSE /\ runs' = Append(runs, NewRun(sid, ~fresh, loaded,
                                                  Len(chunkMetas)))
                   /\ smgr' = sv.m
                   /\ snd' = [phase |-> "ready", sid |-> sid, metas |-> chunkMetas,
                              idx |-> 1]
    /\ UNCHANGED <<storeVars, call, source, chunkSizeFlag, wire, wstate, injected,
                   rmgr, rcv, parts, output>>

\* runTCPSender, lines 99-124: dial the receiver, which accepts the
\* connection and starts a handler for it, and arm the interrupt handler.
SenderConnect ==
    /\ snd.phase = "ready"
    /\ LET c == Len(runs)
       IN  /\ wstate' = [wstate EXCEPT ![c] = "open"]
           /\ rcv' = [rcv EXCEPT ![c].phase = "loop"]
    /\ snd' = [snd EXCEPT !.phase = "dialled"]
    /\ UNCHANGED <<storeVars, call, dclock, uuids, source, chunkSizeFlag, smgr, runs,
                   wire, injected, faults, rmgr, parts, output>>

\* runTCPSender, lines 126-152: open the input file and write the control
\* frame.
SenderControl ==
    /\ snd.phase = "dialled"
    /\ wire' = [wire EXCEPT ![Len(runs)] = Append(@, ControlFrame(FileMeta(source)))]
    /\ snd' = [snd EXCEPT !.phase = "sending"]
    /\ UNCHANGED <<storeVars, call, dclock, uuids, source, chunkSizeFlag, smgr, runs,
                   wstate, injected, faults, rmgr, rcv, parts, output>>

\* runTCPSender, lines 154-173, the first half of a turn of the loop: read,
\* hash, compress and write the next chunk of chunkMetas.
SenderSend ==
    /\ snd.phase = "sending"
    /\ snd.idx <= Len(snd.metas)
    /\ LET c == Len(runs)
           meta == snd.metas[snd.idx]
       IN  /\ wire' = [wire EXCEPT ![c] = Append(@, ChunkFrame(source, meta, snd.sid))]
           /\ runs' = [runs EXCEPT ![c].frames = Append(@, meta.ID)]
    /\ snd' = [snd EXCEPT !.phase = "sent"]
    /\ UNCHANGED <<storeVars, call, dclock, uuids, source, chunkSizeFlag, smgr, wstate,
                   injected, faults, rmgr, rcv, parts, output>>

\* The manager after lines 175-176 for the chunk just sent, the save ending
\* with io: [m, err].
RecordSent(io) ==
    LET meta == snd.metas[snd.idx]
        m == [smgr EXCEPT !.sessions[snd.sid].BytesSent = @ + meta.Size]
    IN  MgrUpdateChunkStatus(m, snd.sid, meta.ID, ChunkStatusCompleted, dclock, io)

\* runTCPSender, lines 175-180, the second half of the turn: count the
\* bytes of the chunk and record it completed; an error of the update is
\* logged only.
SenderSendChunk(io) ==
    /\ snd.phase = "sent"
    /\ Faults(Cost(TRUE, io))
    /\ smgr' = RecordSent(io).m
    /\ snd' = [snd EXCEPT !.phase = "sending", !.idx = @ + 1]
    /\ UNCHANGED <<storeVars, call, dclock, uuids, source, chunkSizeFlag, runs, wire,
                   wstate, injected, rmgr, rcv, parts, output>>

\* runTCPSender, lines 181-184: every chunk is sent; the deferred
\* conn.Close runs and the process exits.
SenderFinish ==
    /\ snd.phase = "sending"
    /\ snd.idx > Len(snd.metas)
    /\ wstate' = [wstate EXCEPT ![Len(runs)] = "closed"]
    /\ SenderExit(smgr, "ok")
    /\ UNCHANGED <<storeVars, call, dclock, uuids, source, chunkSizeFlag, wire,
                   injected, faults, rmgr, rcv, parts, output>>

\* The frame the sender writes next: the control frame, or that of the
\* chunk idx.
FrameToWrite ==
    IF snd.phase = "dialled" THEN ControlFrame(FileMeta(source))
    ELSE ChunkFrame(source, snd.metas[snd.idx], snd.sid)

\* The session directory a sender leaves that exits inside the saveLocked
\* of line 176: as it was, or with the temp file created and empty, written
\* in part or written whole.
DiskKilledInSave ==
    {RecordSent(io).m.disk : io \in SaveOutcomes \ {"ok"}}

\* The interrupt handler of lines 119-124 runs, or log.Fatalf exits the
\* process on an error of the connection or of the file: at any point from
\* the dial on.  The connection is closed with it.  A frame being written
\* has left in part, cut in its payload (SpecCut has the other cuts); a
\* save being made has left its temp file.
SenderKilled ==
    /\ snd.phase \in {"dialled", "sending", "sent"}
    /\ LET c == Len(runs)
       IN  /\ wstate' = [wstate EXCEPT ![c] = "closed"]
           /\ \/ /\ wire' = wire
                 /\ SenderExit(smgr, "killed")
              \/ /\ snd.phase = "dialled" \/ snd.idx <= Len(snd.metas)
                 /\ snd.phase # "sent"
                 /\ wire' = [wire EXCEPT ![c] =
                               Append(@, [FrameToWrite EXCEPT
                                            !.cut = PayloadCut(OnWire(FrameToWrite))])]
                 /\ SenderExit(smgr, "killed")
              \/ /\ snd.phase = "sent"
                 /\ wire' = wire
                 /\ \E d \in DiskKilledInSave :
                       SenderExit([smgr EXCEPT !.disk = d], "killed")
    /\ UNCHANGED <<storeVars, call, dclock, uuids, source, chunkSizeFlag, injected,
                   faults, rmgr, rcv, parts, output>>

\* The steps of the sender from the dial on.
Transfer ==
    \/ SenderConnect
    \/ SenderControl
    \/ SenderSend
    \/ \E io \in SaveOutcomes : SenderSendChunk(io)
    \/ SenderFinish
    \/ SenderKilled

(***************************************************************************)
(* cmd/receiver: handleConnection, one goroutine per connection c.         *)
(***************************************************************************)
\* The session of the handler of c, and the output file it assembles.
SessOf(c) == rmgr.sessions[rcv[c].sid]
OutPath(c) == SessOf(c).File.Name

\* handleConnection, line 114: sess == nil, no control frame has created
\* the session of connection c yet.
NoSessionNever(c) == FALSE

NoSession(c) == rcv[c].sid = <<>>

\* CreateSession, lines 79-100, drawing the id: the manager with the session
\* inserted in its table, not yet saved: [m, err, id].
MgrInsertSession(m, fileInfo, id, now) ==
    LET s == [ZeroSession EXCEPT !.ID = id, !.File = fileInfo,
                                 !.Status = SessionStatusCreated,
                                 !.CreatedAt = now, !.UpdatedAt = now]
        t == [i \in DOMAIN m.sessions \cup {id} |->
                 IF i = id THEN s ELSE m.sessions[i]]
    IN  IF FileMetadataValidate(fileInfo) # ""
        THEN [m |-> m, err |-> FileMetadataValidate(fileInfo), id |-> <<>>]
        ELSE IF TransferSessionValidate(s) # ""
        THEN [m |-> m, err |-> TransferSessionValidate(s), id |-> <<>>]
        ELSE [m |-> [m EXCEPT !.sessions = t], err |-> "", id |-> id]

\* handleConnection, lines 85-136, a turn of the loop up to its first write
\* to a file: receive a frame; break on an error; on a control frame
\* validate the file metadata and insert the new session in the table
\* (CreateSession, lines 79-100); drop a data frame that comes before a
\* session or does not verify; else insert the chunk in the session.
RecvFrame(c) ==
    /\ rcv[c].phase = "loop"
    /\ wire[c] # <<>>
    /\ wire' = [wire EXCEPT ![c] = Tail(@)]
    /\ LET r == Receive(Head(wire[c]))
           fm == JSONUnmarshal(r.data)
           cr == MgrInsertSession(rmgr, UnmarshalFile(fm.obj), NewUUID(uuids), dclock)
           hx == HexDecode(r.meta.SHA256)
           meta == [r.meta EXCEPT !.SessionID = rcv[c].sid]
       IN  IF r.err # ""
           THEN /\ rcv' = [rcv EXCEPT ![c].phase = "assemble",
                                      ![c].eof = IF r.err = EOF THEN EOF ELSE "error"]
                /\ UNCHANGED <<rmgr, uuids>>
           ELSE IF r.meta.ID = ControlID
           THEN IF fm.err # ""
                THEN /\ rcv' = [rcv EXCEPT ![c].phase = "closed",
                                           ![c].result = "invalid file metadata frame"]
                     /\ UNCHANGED <<rmgr, uuids>>
                ELSE /\ rmgr' = cr.m
                     /\ uuids' = IF cr.id # <<>> THEN uuids \cup {cr.id} ELSE uuids
                     /\ rcv' = IF cr.err # ""
                               THEN [rcv EXCEPT ![c].phase = "closed",
                                                ![c].result = "create session"]
                               ELSE [rcv EXCEPT ![c].phase = "create",
                                                ![c].creating = cr.id]
           ELSE IF NoSession(c) \/ hx.err # ""
                   \/ ~VerifyChunk(r.data, Copy32(hx.bytes))
           THEN /\ rcv' = [rcv EXCEPT ![c].dropped = TRUE]
                /\ UNCHANGED <<rmgr, uuids>>
           ELSE /\ rmgr' = [rmgr EXCEPT !.sessions[rcv[c].sid].Chunks =
                               [k \in DOMAIN @ \cup {meta.ID} |->
                                   IF k = meta.ID THEN meta ELSE @[k]]]
                /\ rcv' = [rcv EXCEPT ![c].phase = "store", ![c].meta = meta,
                                      ![c].data = r.data]
                /\ UNCHANGED uuids
    /\ UNCHANGED <<storeVars, call, dclock, source, chunkSizeFlag, smgr, snd, runs,
                   wstate, injected, faults, parts, output>>

\* CreateSession, lines 102-105, and handleConnection, lines 106-111: the
\* new session is saved; on an error the handler returns, the session
\* staying in the table.
RecvCreated(c, io) ==
    /\ rcv[c].phase = "create"
    /\ Faults(Cost(TRUE, io))
    /\ LET sv == MgrSave(rmgr, rcv[c].creating, io)
       IN  /\ rmgr' = sv.m
           /\ rcv' = IF sv.err # ""
                     THEN [rcv EXCEPT ![c].phase = "closed", ![c].creating = <<>>,
                                      ![c].result = "create session"]
                     ELSE [rcv EXCEPT ![c].phase = "loop", ![c].creating = <<>>,
                                      ![c].sid = rcv[c].creating]
    /\ UNCHANGED <<storeVars, call, dclock, uuids, source, chunkSizeFlag, smgr, snd,
                   runs, wire, wstate, injected, parts, output>>

\* What a failing os.WriteFile(path, data) has left in the file it opened
\* and truncated: no byte, a part of data, or, failing in Close, all of it.
WrittenBefore(data) ==
    {IF n = 0 THEN NoBytes ELSE [data EXCEPT !.seq = SubSeq(@, 1, n)] :
        n \in 0 .. Len(data.seq)}

\* handleConnection, lines 138-141: StoreChunk writes the scratch file of
\* the chunk; os.WriteFile on an error leaves the file as it was (the open
\* failed) or cut short at any point, and the handler goes on with the
\* next frame.
RecvStore(c, ok) ==
    /\ rcv[c].phase = "store"
    /\ Faults(Cost(ok, "ok"))
    /\ LET path == PartPath(rcv[c].sid, rcv[c].meta.ID)
       IN  IF ok
           THEN /\ parts' = WriteEntry(parts, path, rcv[c].data)
                /\ rcv' = [rcv EXCEPT ![c].phase = "update"]
           ELSE /\ \/ parts' = parts
                   \/ \E left \in WrittenBefore(rcv[c].data) :
                         parts' = WriteEntry(parts, path, left)
                /\ rcv' = [rcv EXCEPT ![c].phase = "loop", ![c].storefail = TRUE,
                                      ![c].meta = ZeroChunk, ![c].data = NoBytes]
    /\ UNCHANGED <<storeVars, call, dclock, uuids, source, chunkSizeFlag, smgr, snd,
                   runs, wire, wstate, injected, rmgr, output>>

\* handleConnection, lines 143-145: the chunk is recorded completed; an
\* error of the update is logged only.
RecvUpdate(c, io) ==
    /\ rcv[c].phase = "update"
    /\ Faults(Cost(TRUE, io))
    /\ rmgr' = MgrUpdateChunkStatus(rmgr, rcv[c].sid, rcv[c].meta.ID,
                                    ChunkStatusCompleted, dclock, io).m
    /\ rcv' = [rcv EXCEPT ![c].phase = "loop", ![c].meta = ZeroChunk,
                          ![c].data = NoBytes]
    /\ UNCHANGED <<storeVars, call, dclock, uuids, source, chunkSizeFlag, smgr, snd,
                   runs, wire, wstate, injected, parts, output>>

\* A turn of the loop of the handler of connection c, step by step.
Turn(c) ==
    \/ RecvFrame(c)
    \/ \E io \in SaveOutcomes : RecvCreated(c, io)
    \/ \E ok \in BOOLEAN : RecvStore(c, ok)
    \/ \E io \in SaveOutcomes : RecvUpdate(c, io)

\* handleConnection, lines 86-89: Receive returns io.EOF on a connection
\* closed between two frames.
RecvEOF(c) ==
    /\ rcv[c].phase = "loop"
    /\ wire[c] = <<>>
    /\ wstate[c] = "closed"
    /\ rcv' = [rcv EXCEPT ![c].phase = "assemble",
                          ![c].eof = ReceiveStream(<<>>).err]
    /\ UNCHANGED <<storeVars, call, dclock, uuids, source, chunkSizeFlag, smgr, snd,
                   runs, wire, wstate, injected, faults, rmgr, parts, output>>

\* handleConnection, line 148, and AssembleFile, lines 95-107: without a
\* session the handler returns; else create or truncate the output file
\* and sort the chunks of the session by offset.
AssembleOpen(c, ok) ==
    /\ rcv[c].phase = "assemble"
    /\ Faults(Cost(ok, "ok"))
    /\ IF rcv[c].sid = <<>>
       THEN /\ ok
            /\ rcv' = [rcv EXCEPT ![c].phase = "closed", ![c].result = "no session"]
            /\ output' = output
       ELSE IF ~ok
       THEN /\ rcv' = [rcv EXCEPT ![c].phase = "closed",
                                  ![c].result = "open output file"]
            /\ output' = output
       ELSE /\ output' = WriteEntry(output, OutPath(c), NoBytes)
            /\ \E o \in SortByOffset(SessOf(c).Chunks) :
                  rcv' = [rcv EXCEPT ![c].phase = "asm", ![c].order = o,
                                     ![c].pos = 0]
    /\ UNCHANGED <<storeVars, call, dclock, uuids, source, chunkSizeFlag, smgr, snd,
                   runs, wire, wstate, injected, rmgr, parts>>

\* AssembleFile, lines 109-119: read the scratch file of the next chunk and
\* write it to the output; a scratch file that is not there ends the
\* assembly with an error.
AssembleChunk(c) ==
    /\ rcv[c].phase = "asm"
    /\ rcv[c].order # <<>>
    /\ LET path == PartPath(rcv[c].sid, Head(rcv[c].order))
       IN  IF path \notin DOMAIN parts
           THEN /\ rcv' = [rcv EXCEPT ![c].phase = "closed",
                                      ![c].result = "read chunk file"]
                /\ output' = output
           ELSE /\ output' = [output EXCEPT ![OutPath(c)] =
                                 RawBytes(WriteAt(@.seq, rcv[c].pos, parts[path].seq))]
                /\ rcv' = [rcv EXCEPT ![c].order = Tail(@),
                                      ![c].pos = @ + Len(parts[path].seq)]
    /\ UNCHANGED <<storeVars, call, dclock, uuids, source, chunkSizeFlag, smgr, snd,
                   runs, wire, wstate, injected, faults, rmgr, parts>>

\* An AssembleFile that compares what it has written with file.size.
AssembleDoneSizeChecked(c) ==
    /\ rcv[c].phase = "asm"
    /\ rcv[c].order = <<>>
    /\ rcv' = [rcv EXCEPT ![c].phase = "closed",
                          ![c].result = IF rcv[c].pos = SessOf(c).File.Size THEN "ok"
                                        ELSE "incomplete file"]
    /\ UNCHANGED <<storeVars, call, dclock, uuids, source, chunkSizeFlag, smgr, snd,
                   runs, wire, wstate, injected, faults, rmgr, parts, output>>

\* AssembleFile, line 121, and handleConnection, line 154: the file is
\* assembled.
AssembleDone(c) ==
    /\ rcv[c].phase = "asm"
    /\ rcv[c].order = <<>>
    /\ rcv' = [rcv EXCEPT ![c].phase = "closed", ![c].result = "ok"]
    /\ UNCHANGED <<storeVars, call, dclock, uuids, source, chunkSizeFlag, smgr, snd,
                   runs, wire, wstate, injected, faults, rmgr, parts, output>>

\* The steps of the handler of connection c.
Handler(c) ==
    \/ Turn(c)
    \/ RecvEOF(c)
    \/ \E ok \in BOOLEAN : AssembleOpen(c, ok)
    \/ AssembleChunk(c)
    \/ AssembleDone(c)

(***************************************************************************)
(* SpecXfer: runs of the sender on a source file, each run new or resuming *)
(* the session of an earlier one, against one receiver, every step of the  *)
(* one interleaved with the steps of the other.  The sender can be killed  *)
(* at any point; no I/O error occurs (SpecSeq and SpecSend have them).     *)
(***************************************************************************)
UnknownID == <<"u0">>

\* The values of --resume: none, the session of an earlier run, or an id
\* the session directory does not hold.
ResumeIDs ==
    {<<>>, UnknownID} \cup {runs[i].sid : i \in DOMAIN runs}

\* No run yet; f is the number of I/O errors already taken.
InitTransfer(f) ==
    /\ sessions = NoSessions
    /\ disk = EmptyDir
    /\ lock = 0
    /\ pc = [w \in Workers |-> IdlePC]
    /\ ret = [w \in Workers |-> NoRet]
    /\ clock = 0
    /\ issued = {}
    /\ alive = FALSE
    /\ gen = 0
    /\ baseDir = "dir"
    /\ ctor = "none"
    /\ dclock = 0
    /\ uuids = {}
    /\ source \in SourceFiles
    /\ chunkSizeFlag \in ChunkSizeFlags
    /\ smgr = NewManager
    /\ snd = NoRun
    /\ runs = <<>>
    /\ wire = [c \in Conns |-> <<>>]
    /\ wstate = [c \in Conns |-> "none"]
    /\ injected = 0
    /\ faults = f
    /\ rmgr = NewManager
    /\ rcv = [c \in Conns |-> NoHandler]
    /\ parts = NoFiles
    /\ output = NoFiles
    /\ call = NoCall

InitXfer == InitTransfer(0)

\* The same with no I/O error to come.
InitSteady == InitTransfer(MaxFaults)

NextXfer ==
    \/ \E resume \in ResumeIDs, io1, io2 \in SaveOutcomes :
          SenderMain(resume, io1, io2)
    \/ Transfer
    \/ \E c \in Conns : Handler(c)

SpecXfer == InitSteady /\ [][NextXfer]_vars

(***************************************************************************)
(* SpecSend: the runs of the sender alone: nothing reads the connections,  *)
(* so that wire[c] is every frame written on connection c, in order.       *)
(***************************************************************************)
NextSend ==
    \/ \E resume \in ResumeIDs, io1, io2 \in SaveOutcomes :
          SenderMain(resume, io1, io2)
    \/ Transfer

SpecSend == InitXfer /\ [][NextSend]_vars

(***************************************************************************)
(* SpecSeq: the same, the runs of the sender one after the other: a run    *)
(* starts when the receiver has finished with the connections of the runs  *)
(* before it.                                                              *)
(***************************************************************************)
ReceiverQuiet == \A c \in Conns : rcv[c].phase \in {"idle", "closed"}

NextSeq ==
    \/ \E resume \in ResumeIDs, io1, io2 \in SaveOutcomes :
          /\ ReceiverQuiet
          /\ SenderMain(resume, io1, io2)
    \/ Transfer
    \/ \E c \in Conns : Handler(c)

SpecSeq == InitXfer /\ [][NextSeq]_vars

(***************************************************************************)
(* SpecRecv: the receiver against peers that write any frames: those of an *)
(* honest sender of PeerFile in any order and number, and malformed ones.  *)
(***************************************************************************)
PeerFile == <<1, 2>>

\* The chunk of PeerFile at offset off, of one block.
PeerChunk(off) ==
    [ZeroChunk EXCEPT !.ID = DecimalString(off), !.Size = 1, !.Offset = off,
                      !.Status = ChunkStatusPending]

PeerData(off) == RawBytes(SubSeq(PeerFile, off + 1, off + 1))

\* The frame of the chunk at offset off declaring the hash sha.
PeerFrame(off, sha) ==
    Frame([PeerChunk(off) EXCEPT !.SHA256 = sha], CompressChunk(PeerData(off)))

GoodFrame(off) == PeerFrame(off, HexEncode(HashChunk(PeerData(off))))

\* Declared hashes that are not the hex digest of the data of chunk 0: the
\* digest of other data, the digest followed by one more byte, the digest
\* less its last byte, nothing, and strings that are no hex encoding.
WrongHashes ==
    {HexEncode(HashChunk(PeerData(1))),
     HexEncode(HashChunk(PeerData(0)) \o <<ZeroByte>>),
     HexEncode(<<SumToken(PeerData(0), HashLen - 1)>>),
     <<>>,
     HexEncode(HashChunk(PeerData(0))) \o <<BadDigit>>,
     HexEncode(HashChunk(PeerData(0))) \o <<OddDigit>>}

PeerFrames ==
    {ControlFrame(FileMeta(PeerFile)),
     ControlFrame(FileMeta(<<>>)),
     Frame([ZeroChunk EXCEPT !.ID = ControlID], CompressChunk(PeerData(0))),
     GoodFrame(0), GoodFrame(1),
     PeerFrame(0, <<UpperHex(SumToken(PeerData(0), HashLen))>>),
     [GoodFrame(0) EXCEPT !.data = PeerData(0)],
     [GoodFrame(0) EXCEPT !.meta = PeerData(0)],
     [GoodFrame(0) EXCEPT !.cut = [fields |-> 2, part |-> TRUE]]}
        \cup {PeerFrame(0, sha) : sha \in WrongHashes}

\* A peer writes frame f on connection c, dialling it first if need be.
PeerSend(c, f) ==
    /\ wstate[c] \in {"none", "open"}
    /\ injected < MaxFrames
    /\ injected' = injected + 1
    /\ wire' = [wire EXCEPT ![c] = Append(@, f)]
    /\ wstate' = [wstate EXCEPT ![c] = "open"]
    /\ rcv' = IF wstate[c] = "none" THEN [rcv EXCEPT ![c].phase = "loop"] ELSE rcv
    /\ UNCHANGED <<storeVars, call, dclock, uuids, source, chunkSizeFlag, smgr, snd, runs,
                   faults, rmgr, parts, output>>

\* A peer closes connection c.
PeerClose(c) ==
    /\ wstate[c] = "open"
    /\ wstate' = [wstate EXCEPT ![c] = "closed"]
    /\ UNCHANGED <<storeVars, call, dclock, uuids, source, chunkSizeFlag, smgr, snd, runs,
                   wire, injected, faults, rmgr, rcv, parts, output>>

InitRecv ==
    /\ sessions = NoSessions
    /\ disk = EmptyDir
    /\ lock = 0
    /\ pc = [w \in Workers |-> IdlePC]
    /\ ret = [w \in Workers |-> NoRet]
    /\ clock = 0
    /\ issued = {}
    /\ alive = FALSE
    /\ gen = 0
    /\ baseDir = "dir"
    /\ ctor = "none"
    /\ DriverIdle
    /\ call = NoCall

NextRecv ==
    \/ \E c \in Conns, f \in PeerFrames : PeerSend(c, f)
    \/ \E c \in Conns : PeerClose(c)
    \/ \E c \in Conns : Handler(c)

SpecRecv == InitRecv /\ [][NextRecv]_vars

(***************************************************************************)
(* SpecCut: the receiver against a peer that writes, on one connection,    *)
(* the control frame and the chunk frames of PeerFile in order, and that   *)
(* closes the connection between two frames or within one.                 *)
(***************************************************************************)
\* The connection of the peer.
PeerConn == CHOOSE c \in Conns : TRUE

\* The i-th frame of the peer.
PeerFrameAt(i) ==
    IF i = 1 THEN ControlFrame(FileMeta(PeerFile))
    ELSE GoodFrame((i - 2) % Len(PeerFile))

\* The connection of the peer is closed while frame f is being written:
\* the stream ends after at least one byte of it and before its last.
PeerCut(c, f) ==
    /\ wstate[c] \in {"none", "open"}
    /\ injected < MaxFrames
    /\ injected' = injected + 1
    /\ \E cut \in CutPoints(OnWire(f)) :
          wire' = [wire EXCEPT ![c] = Append(@, [f EXCEPT !.cut = cut])]
    /\ wstate' = [wstate EXCEPT ![c] = "closed"]
    /\ rcv' = IF wstate[c] = "none" THEN [rcv EXCEPT ![c].phase = "loop"] ELSE rcv
    /\ UNCHANGED <<storeVars, call, dclock, uuids, source, chunkSizeFlag, smgr, snd, runs,
                   faults, rmgr, parts, output>>

NextCut ==
    \/ PeerSend(PeerConn, PeerFrameAt(injected + 1))
    \/ PeerCut(PeerConn, PeerFrameAt(injected + 1))
    \/ PeerClose(PeerConn)
    \/ Handler(PeerConn)

SpecCut == InitRecv /\ [][NextCut]_vars

(***************************************************************************)
(* SpecSpool: the receiver against a peer that writes, on one connection,  *)
(* control frames and frames of the chunks of PeerFile with their hashes,  *)
(* in any order and number; the metadata of a frame may declare any chunk  *)
(* status.                                                                 *)
(***************************************************************************)
\* The frame of the chunk at offset off, with its hash, declaring a status.
DeclaredFrame(off, status) ==
    Frame([PeerChunk(off) EXCEPT !.SHA256 = HexEncode(HashChunk(PeerData(off))),
                                 !.Status = status],
          CompressChunk(PeerData(off)))

SpoolFrames ==
    {ControlFrame(FileMeta(PeerFile))}
        \cup {DeclaredFrame(off, status) :
                 off \in {0, 1},
                 status \in {ChunkStatusPending, ChunkStatusCompleted}}

NextSpool ==
    \/ \E f \in SpoolFrames : PeerSend(PeerConn, f)
    \/ PeerClose(PeerConn)
    \/ Handler(PeerConn)

SpecSpool == InitRecv /\ [][NextSpool]_vars

(***************************************************************************)
(* SpecPar: the receiver with every connection accepted and handled by its *)
(* own goroutine, runTCPReceiver lines 67-74.  Each peer has written its   *)
(* frames, a control frame first, and keeps its connection open; the loops *)
(* of the handlers run interleaved.                                        *)
(***************************************************************************)
\* What a peer writes on its connection: the control frame and the chunks
\* of PeerFile, or two files one after the other.  The peers use the same
\* chunk ids.
PeerScripts ==
    {<<ControlFrame(FileMeta(PeerFile)), GoodFrame(0), GoodFrame(1)>>,
     <<ControlFrame(FileMeta(PeerFile)), GoodFrame(0),
       ControlFrame(FileMeta(PeerFile)), GoodFrame(0)>>}

InitPar ==
    /\ StoreIdle
    /\ dclock = 0
    /\ uuids = {}
    /\ source = <<>>
    /\ chunkSizeFlag = 0
    /\ smgr = NewManager
    /\ snd = NoRun
    /\ runs = <<>>
    /\ wire \in [Conns -> PeerScripts]
    /\ wstate = [c \in Conns |-> "open"]
    /\ injected = 0
    /\ faults = 0
    /\ rmgr = NewManager
    /\ rcv = [c \in Conns |-> [NoHandler EXCEPT !.phase = "loop"]]
    /\ parts = NoFiles
    /\ output = NoFiles
    /\ call = NoCall

\* The turns of the loops of the handlers, in any interleaving.
NextPar ==
    \E c \in Conns : Turn(c)

SpecPar == InitPar /\ [][NextPar]_vars

(***************************************************************************)
(* SpecAsm: connections handled one after the other, each by the loop of   *)
(* handleConnection followed by AssembleFile.  Each peer has written a     *)
(* control frame for a.bin and some of its chunks and has closed.          *)
(***************************************************************************)
\* What a peer writes: the whole file, the whole file last chunk first,
\* the first chunk only, no chunk.
AsmScripts ==
    {<<ControlFrame(FileMeta(PeerFile)), GoodFrame(0), GoodFrame(1)>>,
     <<ControlFrame(FileMeta(PeerFile)), GoodFrame(1), GoodFrame(0)>>,
     <<ControlFrame(FileMeta(PeerFile)), GoodFrame(0)>>,
     <<ControlFrame(FileMeta(PeerFile))>>}

InitAsm ==
    /\ StoreIdle
    /\ dclock = 0
    /\ uuids = {}
    /\ source = <<>>
    /\ chunkSizeFlag = 0
    /\ smgr = NewManager
    /\ snd = NoRun
    /\ runs = <<>>
    /\ wire \in [Conns -> AsmScripts]
    /\ wstate = [c \in Conns |-> "closed"]
    /\ injected = 0
    /\ faults = 0
    /\ rmgr = NewManager
    /\ rcv = [c \in Conns |-> [NoHandler EXCEPT !.phase = "loop"]]
    /\ parts = NoFiles
    /\ output = NoFiles
    /\ call = NoCall

\* The steps of the handler of the first connection that has not returned.
NextAsm ==
    \E c \in Conns :
        /\ \A b \in Conns : b < c => rcv[b].phase = "closed"
        /\ Handler(c)

SpecAsm == InitAsm /\ [][NextAsm]_vars

(***************************************************************************)
(* SpecFrame: a writer that sends a sequence of (metadata, payload) pairs, *)
(* each compressed and written by Send, and closes; a reader that calls    *)
(* Receive until it returns an error.                                      *)
(***************************************************************************)
\* The longest sequence of pairs.
MaxPairs == 2

\* The metadata: the zero descriptor, that of a control frame, that of a
\* chunk.
PairMetas ==
    {ZeroChunk,
     [ZeroChunk EXCEPT !.ID = ControlID, !.Status = ChunkStatusPending],
     [PeerChunk(1) EXCEPT !.SHA256 = HexEncode(HashChunk(PeerData(1))),
                          !.SessionID = <<"u1">>, !.CreatedAt = 1]}

\* The payloads: empty, of one block, of two, a JSON text.
PairPayloads ==
    {NoBytes, RawBytes(<<1>>), RawBytes(<<1, 2>>), JSONBytes(MarshalFile(ValidFile))}

Pairs == {[meta |-> m, data |-> d] : m \in PairMetas, d \in PairPayloads}

InitFrame ==
    /\ StoreIdle
    /\ DriverIdle
    /\ call \in {[fn |-> "Send/Receive", pairs |-> ps, sent |-> 0, stream |-> <<>>,
                   got |-> <<>>, end |-> ""] :
                    ps \in UNION {[1 .. n -> Pairs] : n \in 0 .. MaxPairs}}

\* The writer compresses the payload of its next pair, as runTCPSender
\* does, and writes the frame with Send.
FrameSend ==
    /\ call.fn = "Send/Receive"
    /\ call.sent < Len(call.pairs)
    /\ LET p == call.pairs[call.sent + 1]
       IN  call' = [call EXCEPT !.sent = @ + 1,
                                !.stream = @ \o Send(CompressChunk(p.data), p.meta)]
    /\ UNCHANGED <<storeVars, dclock, uuids, source, chunkSizeFlag, smgr, snd, runs,
                   wire, wstate, injected, faults, rmgr, rcv, parts, output>>

\* One call of Receive by the reader; it returns when a frame has arrived
\* or the writer has closed the stream.
FrameReceive ==
    /\ call.fn = "Send/Receive"
    /\ call.end = ""
    /\ call.stream # <<>> \/ call.sent = Len(call.pairs)
    /\ LET r == ReceiveStream(call.stream)
       IN  call' = [call EXCEPT
                      !.stream = r.rest,
                      !.end = r.err,
                      !.got = IF r.err = "" THEN Append(@, [meta |-> r.meta, data |-> r.data])
                              ELSE @]
    /\ UNCHANGED <<storeVars, dclock, uuids, source, chunkSizeFlag, smgr, snd, runs,
                   wire, wstate, injected, faults, rmgr, rcv, parts, output>>

NextFrame == FrameSend \/ FrameReceive

SpecFrame == InitFrame /\ [][NextFrame]_vars

(***************************************************************************)
(* pkg/protocol: the datagram packet.  A byte is a number in 0 .. 255 and  *)
(* a serialized packet is the sequence of its bytes.  A uint32 is written  *)
(* as its two 16-bit halves and a uint64 as its four, most significant     *)
(* first, so that every value of the type has a representation.            *)
(***************************************************************************)
\* headerSize, maxPayload and checksumSize, in bytes.
headerSize == 38
maxPayload == 65536
checksumSize == 4

\* var magic = [4]byte{'T', 'S', 'F', 'T'}
magic == <<84, 83, 70, 84>>

\* The exclusive or of the n low bits of a and b.
RECURSIVE XorBits(_, _, _)
XorBits(a, b, n) ==
    IF n = 0 THEN 0
    ELSE (IF a % 2 = b % 2 THEN 0 ELSE 1) + 2 * XorBits(a \div 2, b \div 2, n - 1)

Xor8 == [a \in 0 .. 255 |-> [b \in 0 .. 255 |-> XorBits(a, b, 8)]]

\* crc32.IEEETable: entry n is n divided eight times by the reflected
\* polynomial 0xedb88320, as its four bytes, most significant first.
RECURSIVE PolyDivide(_, _)
PolyDivide(c, n) ==
    IF n = 0 THEN c
    ELSE LET hi == c[1] \div 2
             lo == (c[2] \div 2) + (c[1] % 2) * 32768
         IN  PolyDivide(IF c[2] % 2 = 1
                        THEN <<XorBits(hi, 60856, 16), XorBits(lo, 33568, 16)>>
                        ELSE <<hi, lo>>, n - 1)

IEEETable ==
    [n \in 0 .. 255 |->
        LET c == PolyDivide(<<0, n>>, 8)
        IN  <<c[1] \div 256, c[1] % 256, c[2] \div 256, c[2] % 256>>]

\* crc32 update of the register c by the bytes lo .. hi of data:
\* c = table[byte(c) ^ b] ^ (c >> 8) for each byte b.
RECURSIVE crcUpdate(_, _, _, _)
crcUpdate(c, data, lo, hi) ==
    IF lo > hi THEN c
    ELSE IF lo = hi
    THEN LET t == IEEETable[Xor8[c[4]][data[lo]]]
         IN  <<t[1], Xor8[t[2]][c[1]], Xor8[t[3]][c[2]], Xor8[t[4]][c[3]]>>
    ELSE LET mid == (lo + hi) \div 2
             left == crcUpdate(c, data, lo, mid)
         IN  IF left[1] >= 0 THEN crcUpdate(left, data, mid + 1, hi) ELSE left

\* crc32.ChecksumIEEE(data), a uint32: the register starts as 0xffffffff
\* and is complemented at the end.
ChecksumIEEE(data) ==
    LET c == crcUpdate(<<255, 255, 255, 255>>, data, 1, Len(data))
    IN  <<(255 - c[1]) * 256 + (255 - c[2]), (255 - c[3]) * 256 + (255 - c[4])>>

\* binary.Write(buf, binary.BigEndian, v) of an unsigned integer: its bytes,
\* most significant first.
BigEndian(v) ==
    [i \in 1 .. 2 * Len(v) |->
        LET h == v[(i + 1) \div 2]
        IN  IF i % 2 = 1 THEN h \div 256 ELSE h % 256]

\* binary.Read(buf, binary.BigEndian, &v) and binary.BigEndian.Uint32: the
\* unsigned integer of the bytes.
Uint(bytes) ==
    [i \in 1 .. Len(bytes) \div 2 |-> bytes[2 * i - 1] * 256 + bytes[2 * i]]

\* The zero Packet, and no packet.
ZeroPacket ==
    [Version |-> 0, Type |-> 0, SessionID |-> [i \in 1 .. 16 |-> 0],
     ChunkID |-> <<0, 0, 0, 0>>, Seq |-> <<0, 0>>, Priority |-> 0,
     Payload |-> <<>>, Checksum |-> <<0, 0>>]

NilPacket == [ZeroPacket EXCEPT !.Version = -1]

\* A SerializePacket that writes the priority as one more byte of padding.
SerializePacketPadded(p) ==
    IF Len(p.Payload) > maxPayload
    THEN [err |-> "payload too large", data |-> <<>>, p |-> p]
    ELSE LET buf == magic \o <<p.Version, p.Type>> \o p.SessionID
                        \o BigEndian(p.ChunkID) \o BigEndian(p.Seq)
                        \o <<0, 0, 0, 0>> \o p.Payload
             checksum == ChecksumIEEE(buf)
         IN  [err |-> "", data |-> buf \o BigEndian(checksum),
              p |-> [p EXCEPT !.Checksum = checksum]]

\* SerializePacket(p): [err, data, p], p with the checksum the call has
\* stored in it.
SerializePacket(p) ==
    IF Len(p.Payload) > maxPayload
    THEN [err |-> "payload too large", data |-> <<>>, p |-> p]
    ELSE LET buf == magic \o <<p.Version, p.Type>> \o p.SessionID
                        \o BigEndian(p.ChunkID) \o BigEndian(p.Seq)
                        \o <<p.Priority>> \o <<0, 0, 0>> \o p.Payload
             checksum == ChecksumIEEE(buf)
         IN  [err |-> "", data |-> buf \o BigEndian(checksum),
              p |-> [p EXCEPT !.Checksum = checksum]]

\* CalculateChecksum(data): the CRC of data less its last four bytes.
CalculateChecksum(data) ==
    IF Len(data) <= checksumSize THEN ChecksumIEEE(data)
    ELSE ChecksumIEEE(SubSeq(data, 1, Len(data) - checksumSize))

\* A verification that accepts everything.
VerifyChecksumSkipped(data, checksum) == TRUE

VerifyChecksum(data, checksum) == CalculateChecksum(data) = checksum

\* DeserializePacket(data): [err, p].
DeserializePacket(data) ==
    IF Len(data) < headerSize + checksumSize
    THEN [err |-> "packet too small", p |-> NilPacket]
    ELSE IF SubSeq(data, 1, 4) # magic
    THEN [err |-> "invalid magic", p |-> NilPacket]
    ELSE LET remaining == SubSeq(data, headerSize + 1, Len(data))
             checksum == Uint(SubSeq(remaining, Len(remaining) - checksumSize + 1,
                                     Len(remaining)))
             p == [Version |-> data[5], Type |-> data[6],
                   SessionID |-> SubSeq(data, 7, 22),
                   ChunkID |-> Uint(SubSeq(data, 23, 30)),
                   Seq |-> Uint(SubSeq(data, 31, 34)),
                   Priority |-> data[35],
                   Payload |-> SubSeq(remaining, 1, Len(remaining) - checksumSize),
                   Checksum |-> checksum]
         IN  IF ~VerifyChecksum(data, checksum)
             THEN [err |-> "checksum verification failed", p |-> NilPacket]
             ELSE [err |-> "", p |-> p]

(***************************************************************************)
(* SpecPkt: a packet is serialized; the bytes are deserialized as they     *)
(* are and, those of a short packet, with one byte changed or cut short.   *)
(***************************************************************************)
\* The packets of the two tests, a packet with an empty payload, the largest
\* value in every other field and a checksum left from an earlier use, and
\* packets with the largest payload and one byte more.
PacketInputs ==
    {[ZeroPacket EXCEPT !.Version = 1, !.Type = 1,
         !.SessionID = <<115, 101, 115, 115, 105, 111, 110, 45,
                         49, 50, 51, 52, 53, 54, 55, 56>>,
         !.ChunkID = <<0, 0, 0, 42>>, !.Seq = <<0, 7>>, !.Priority = 1,
         !.Payload = <<104, 101, 108, 108, 111, 32, 119, 111, 114, 108, 100>>],
     [ZeroPacket EXCEPT !.Version = 1, !.Type = 1,
         !.Payload = <<116, 101, 115, 116>>],
     [ZeroPacket EXCEPT !.Version = 255, !.Type = 4,
         !.SessionID = [i \in 1 .. 16 |-> 255],
         !.ChunkID = <<65535, 65535, 65535, 65535>>, !.Seq = <<65535, 65535>>,
         !.Priority = 255, !.Checksum = <<4660, 22136>>],
     [ZeroPacket EXCEPT !.Version = 1, !.Type = 2, !.Seq = <<1, 0>>,
         !.Checksum = <<4660, 22136>>,
         !.Payload = [i \in 1 .. maxPayload |-> (7 * i) % 256]],
     [ZeroPacket EXCEPT !.Version = 1, !.Type = 3,
         !.Payload = [i \in 1 .. maxPayload + 1 |-> 0]]}

\* The longest serialized packet of which bytes are changed or cut off.
ShortPacket(data) == Len(data) <= 2 * (headerSize + checksumSize)

InitPkt ==
    /\ StoreIdle
    /\ DriverIdle
    /\ call = NoCall

PktSerialize(p) ==
    /\ call = NoCall
    /\ LET r == SerializePacket(p)
       IN  call' = [fn |-> "SerializePacket", arg |-> p, err |-> r.err,
                    p |-> r.p, data |-> r.data, input |-> <<>>,
                    pos |-> 0, got |-> [err |-> "", p |-> NilPacket]]
    /\ UNCHANGED <<storeVars, dclock, uuids, source, chunkSizeFlag, smgr, snd, runs,
                   wire, wstate, injected, faults, rmgr, rcv, parts, output>>

\* DeserializePacket of the bytes SerializePacket returned.
PktDeserialize ==
    /\ call.fn = "SerializePacket"
    /\ call.err = ""
    /\ call' = [call EXCEPT !.fn = "DeserializePacket", !.input = call.data,
                            !.got = DeserializePacket(call.data)]
    /\ UNCHANGED <<storeVars, dclock, uuids, source, chunkSizeFlag, smgr, snd, runs,
                   wire, wstate, injected, faults, rmgr, rcv, parts, output>>

\* DeserializePacket of the bytes of a short packet with one byte changed:
\* any byte, in any way.
PktCorrupt ==
    /\ call.fn = "SerializePacket"
    /\ call.err = ""
    /\ ShortPacket(call.data)
    /\ \E i \in 1 .. Len(call.data), mask \in 1 .. 255 :
          LET input == [call.data EXCEPT ![i] = Xor8[@][mask]]
          IN  call' = [call EXCEPT !.fn = "corrupted", !.input = input, !.pos = i,
                                   !.got = DeserializePacket(input)]
    /\ UNCHANGED <<storeVars, dclock, uuids, source, chunkSizeFlag, smgr, snd, runs,
                   wire, wstate, injected, faults, rmgr, rcv, parts, output>>

\* DeserializePacket of the first n bytes of a short packet.
PktTruncate(n) ==
    /\ call.fn = "SerializePacket"
    /\ call.err = ""
    /\ ShortPacket(call.data)
    /\ n < Len(call.data)
    /\ LET input == SubSeq(call.data, 1, n)
       IN  call' = [call EXCEPT !.fn = "truncated", !.input = input, !.pos = n,
                                !.got = DeserializePacket(input)]
    /\ UNCHANGED <<storeVars, dclock, uuids, source, chunkSizeFlag, smgr, snd, runs,
                   wire, wstate, injected, faults, rmgr, rcv, parts, output>>

NextPkt ==
    \/ \E p \in PacketInputs : PktSerialize(p)
    \/ PktDeserialize
    \/ PktCorrupt
    \/ \E n \in 0 .. 2 * (headerSize + checksumSize) : PktTruncate(n)

SpecPkt == InitPkt /\ [][NextPkt]_vars

(***************************************************************************)
(* internal/erasure: the Reed-Solomon coder.  A shard is nil or a sequence *)
(* of bytes.  The codec (klauspost/reedsolomon) is modelled by what it     *)
(* guarantees: Encode fills every byte of a parity shard with a value that *)
(* depends on the bytes of the data shards at that position, and           *)
(* Reconstruct restores the missing shards from any DataShards of them.    *)
(***************************************************************************)
\* The coder under examination has CoderData data shards and CoderParity
\* parity shards; it encodes buffers of at most MaxBufLen bytes, at most
\* MaxEncodes times.
CoderData == 2
CoderParity == 1
MaxBufLen == 4
MaxEncodes == 2

NilShard == [nil |-> TRUE, bytes |-> <<>>]
Shard(bytes) == [nil |-> FALSE, bytes |-> bytes]

\* The nil *ErasureCoder.
NilCoder == [nil |-> TRUE]

\* NewErasureCoder(dataShards, parityShards): [e, err].  Line 20 rejects a
\* count that is not positive; the codec of rs.New is kept in the coder.
NewErasureCoder(dataShards, parityShards) ==
    IF dataShards <= 0 \/ parityShards <= 0
    THEN [e |-> NilCoder, err |-> "dataShards and parityShards must be > 0"]
    ELSE [e |-> [DataShards |-> dataShards, ParityShards |-> parityShards,
                 ShardSize |-> 0],
          err |-> ""]

\* CalculateShardSize(dataSize): [e, size]; the size is kept in the coder.
CalculateShardSize(e, dataSize) ==
    IF dataSize <= 0 THEN [e |-> e, size |-> 0]
    ELSE LET size == (dataSize + e.DataShards - 1) \div e.DataShards
         IN  [e |-> [e EXCEPT !.ShardSize = size], size |-> size]

\* reedsolomon shardSize(shards): the length of the first shard that has
\* bytes, 0 when none has.
RECURSIVE FirstLen(_)
FirstLen(shards) ==
    IF shards = <<>> THEN 0
    ELSE IF Len(Head(shards).bytes) # 0 THEN Len(Head(shards).bytes)
    ELSE FirstLen(Tail(shards))

\* reedsolomon checkShards(shards, nilok): "" or the error.
checkShards(shards, nilok) ==
    LET size == FirstLen(shards)
    IN  IF size = 0 THEN "no shard data"
        ELSE IF \E i \in DOMAIN shards :
                   /\ Len(shards[i].bytes) # size
                   /\ Len(shards[i].bytes) # 0 \/ ~nilok
        THEN "shard sizes do not match"
        ELSE ""

\* Byte j of parity shard k over the given data shards.
ParityByte(k, data, j) == [par |-> k, of |-> [i \in DOMAIN data |-> data[i].bytes[j]]]

\* codec.Encode(shards): [err, shards], the parity shards filled in.
CodecEncode(e, shards) ==
    IF Len(shards) # e.DataShards + e.ParityShards
    THEN [err |-> "too few shards given", shards |-> shards]
    ELSE IF checkShards(shards, FALSE) # ""
    THEN [err |-> checkShards(shards, FALSE), shards |-> shards]
    ELSE LET data == SubSeq(shards, 1, e.DataShards)
         IN  [err |-> "",
              shards |-> [i \in DOMAIN shards |->
                            IF i <= e.DataShards THEN shards[i]
                            ELSE Shard([j \in 1 .. FirstLen(shards) |->
                                           ParityByte(i, data, j)])]]

\* codec.Reconstruct(shards): [err, shards]; a shard without bytes is
\* missing, and DataShards present shards restore the others.
CodecReconstruct(e, shards) ==
    LET present == {i \in DOMAIN shards : Len(shards[i].bytes) # 0}
        size == FirstLen(shards)
        DataByte(i, j) ==
            IF i \in present THEN shards[i].bytes[j]
            ELSE LET k == CHOOSE k \in present : k > e.DataShards
                 IN  shards[k].bytes[j].of[i]
        data == [i \in 1 .. e.DataShards |->
                    Shard([j \in 1 .. size |-> DataByte(i, j)])]
    IN  IF Len(shards) # e.DataShards + e.ParityShards
        THEN [err |-> "too few shards given", shards |-> shards]
        ELSE IF checkShards(shards, TRUE) # ""
        THEN [err |-> checkShards(shards, TRUE), shards |-> shards]
        ELSE IF Cardinality(present) = Len(shards)
        THEN [err |-> "", shards |-> shards]
        ELSE IF Cardinality(present) < e.DataShards
        THEN [err |-> "too few shards given", shards |-> shards]
        ELSE [err |-> "",
              shards |-> [i \in DOMAIN shards |->
                            IF i \in present THEN shards[i]
                            ELSE IF i <= e.DataShards THEN data[i]
                            ELSE Shard([j \in 1 .. size |-> ParityByte(i, data, j)])]]

\* ErasureCoder.Encode(data): [err, shards, e].  The shard size is the one
\* the coder holds, computed from the data only when it holds none.
Encode(e, data) ==
    LET c == IF e.ShardSize = 0 THEN CalculateShardSize(e, Len(data))
             ELSE [e |-> e, size |-> e.ShardSize]
        shardSize == c.size
        shards == [i \in 1 .. e.DataShards + e.ParityShards |->
                     Shard([j \in 1 .. shardSize |->
                              LET at == (i - 1) * shardSize + j
                              IN  IF i <= e.DataShards /\ at <= Len(data)
                                  THEN data[at] ELSE 0])]
        r == CodecEncode(c.e, shards)
    IN  IF e.DataShards = 0
        THEN [err |-> "erasure coder not initialized", e |-> e, shards |-> <<>>]
        ELSE [err |-> r.err, e |-> c.e,
              shards |-> IF r.err = "" THEN r.shards ELSE <<>>]

\* The bytes of the shards, one shard after the other.
RECURSIVE Join(_)
Join(shards) ==
    IF shards = <<>> THEN <<>> ELSE Head(shards).bytes \o Join(Tail(shards))

\* ErasureCoder.Decode(shards): [err, data].
Decode(e, shards) ==
    LET r == CodecReconstruct(e, shards)
    IN  IF Len(shards) # e.DataShards + e.ParityShards
        THEN [err |-> "expected shards", data |-> <<>>]
        ELSE IF r.err # "" THEN [err |-> r.err, data |-> <<>>]
        ELSE [err |-> "", data |-> Join(SubSeq(r.shards, 1, e.DataShards))]

\* The loop of ValidateShards over the shards from index i on, with the
\* shard length and the number of present shards found so far.
RECURSIVE validateLoop(_, _, _, _)
validateLoop(shards, i, shardLen, present) ==
    IF i > Len(shards) THEN [err |-> "", present |-> present]
    ELSE IF shards[i].nil THEN validateLoop(shards, i + 1, shardLen, present)
    ELSE IF shardLen = 0
    THEN validateLoop(shards, i + 1, Len(shards[i].bytes), present + 1)
    ELSE IF Len(shards[i].bytes) # shardLen
    THEN [err |-> "inconsistent length", present |-> present]
    ELSE validateLoop(shards, i + 1, shardLen, present + 1)

\* ErasureCoder.ValidateShards(shards): "" or the error.
ValidateShards(e, shards) ==
    LET r == validateLoop(shards, 1, 0, 0)
    IN  IF Len(shards) # e.DataShards + e.ParityShards THEN "expected shards"
        ELSE IF r.err # "" THEN r.err
        ELSE IF r.present < e.DataShards THEN "not enough shards present"
        ELSE ""

(***************************************************************************)
(* SpecErasure: one coder encodes buffers one after the other, its shard   *)
(* size set by CalculateShardSize before or between them or left to        *)
(* Encode; shards of the last encoding are lost and the rest decoded;      *)
(* shard arrays of any form are validated.                                 *)
(***************************************************************************)
\* The buffers: the first n bytes of 1, 2, 3, ...
Buffers == {[i \in 1 .. n |-> i] : n \in 0 .. MaxBufLen}

\* The shards passed to ValidateShards: nil, empty, of one byte, of two.
ShardInputs == {NilShard, Shard(<<>>), Shard(<<1>>), Shard(<<1, 2>>)}

ShardArrays ==
    UNION {[1 .. n -> ShardInputs] :
              n \in CoderData + CoderParity - 1 .. CoderData + CoderParity + 1}

\* The sizes passed to CalculateShardSize.
DataSizes == -1 .. MaxBufLen

\* The arguments of NewErasureCoder: the coder under examination, and
\* counts that are zero or negative.
CoderArgs ==
    {<<CoderData, CoderParity>>, <<0, CoderParity>>, <<CoderData, 0>>, <<-1, -1>>}

InitErasure ==
    /\ StoreIdle
    /\ DriverIdle
    /\ \E a \in CoderArgs :
          call = [fn |-> "NewErasureCoder", args |-> a,
                  e |-> NewErasureCoder(a[1], a[2]).e,
                  encodes |-> 0, sized |-> FALSE, size |-> 0,
                  buf |-> <<>>, shards |-> <<>>,
                  err |-> NewErasureCoder(a[1], a[2]).err,
                  lost |-> {}, data |-> <<>>]

\* ec.CalculateShardSize(dataSize), called on the coder from outside, before
\* or between its encodings.
EcCalculateShardSize(dataSize) ==
    /\ call.fn \in {"NewErasureCoder", "Encode", "CalculateShardSize"}
    /\ call.e # NilCoder
    /\ LET r == CalculateShardSize(call.e, dataSize)
       IN  call' = [call EXCEPT !.fn = "CalculateShardSize", !.e = r.e,
                                !.sized = TRUE, !.size = r.size]
    /\ UNCHANGED <<storeVars, dclock, uuids, source, chunkSizeFlag, smgr, snd, runs,
                   wire, wstate, injected, faults, rmgr, rcv, parts, output>>

\* ec.Encode(buf)
EcEncode(buf) ==
    /\ call.fn \in {"NewErasureCoder", "Encode", "CalculateShardSize"}
    /\ call.e # NilCoder
    /\ call.encodes < MaxEncodes
    /\ LET r == Encode(call.e, buf)
       IN  call' = [call EXCEPT !.fn = "Encode", !.e = r.e, !.encodes = @ + 1,
                                !.buf = buf, !.shards = r.shards, !.err = r.err]
    /\ UNCHANGED <<storeVars, dclock, uuids, source, chunkSizeFlag, smgr, snd, runs,
                   wire, wstate, injected, faults, rmgr, rcv, parts, output>>

\* The shards of lost are replaced by nil and the array is decoded.
EcDecode(lost) ==
    /\ call.fn = "Encode"
    /\ call.err = ""
    /\ Cardinality(lost) <= call.e.ParityShards
    /\ LET shards == [i \in DOMAIN call.shards |->
                        IF i \in lost THEN NilShard ELSE call.shards[i]]
           r == Decode(call.e, shards)
       IN  call' = [call EXCEPT !.fn = "Decode", !.lost = lost, !.err = r.err,
                                !.data = r.data]
    /\ UNCHANGED <<storeVars, dclock, uuids, source, chunkSizeFlag, smgr, snd, runs,
                   wire, wstate, injected, faults, rmgr, rcv, parts, output>>

\* ec.ValidateShards(shards)
EcValidate(shards) ==
    /\ call.fn = "NewErasureCoder"
    /\ call.e # NilCoder
    /\ call' = [call EXCEPT !.fn = "ValidateShards", !.shards = shards,
                            !.err = ValidateShards(call.e, shards)]
    /\ UNCHANGED <<storeVars, dclock, uuids, source, chunkSizeFlag, smgr, snd, runs,
                   wire, wstate, injected, faults, rmgr, rcv, parts, output>>

NextErasure ==
    \/ \E dataSize \in DataSizes : EcCalculateShardSize(dataSize)
    \/ \E buf \in Buffers : EcEncode(buf)
    \/ \E lost \in SUBSET (1 .. CoderData + CoderParity) : EcDecode(lost)
    \/ \E shards \in ShardArrays : EcValidate(shards)

SpecErasure == InitErasure /\ [][NextErasure]_vars

(***************************************************************************)
(* RetryManager: exponential backoff with jitter and a circuit breaker per *)
(* identifier.  Durations are in milliseconds.  A map is a function on the *)
(* set of its keys.                                                        *)
(***************************************************************************)
\* CircuitClosed and CircuitOpen (iota)
CircuitClosed == 0
CircuitOpen == 1

\* The calls recorded on one manager, and the largest attempt number.
MaxRecords == 7
MaxAttempt == 12

\* NewRetryManager(): the defaults; the jitter factor 0.1 is 10 percent.
NewRetryManager ==
    [MaxRetries |-> 5, BaseBackoff |-> 100, MaxBackoff |-> 30000,
     BackoffMultiplier |-> 2, JitterPercent |-> 10,
     failures |-> [id \in {} |-> 0], state |-> [id \in {} |-> CircuitClosed]]

\* ShouldRetry(attempt, err)
ShouldRetry(r, attempt) == ~(attempt >= r.MaxRetries)

\* math.Pow(x, n) for a whole n >= 0.
RECURSIVE Pow(_, _)
Pow(x, n) == IF n = 0 THEN 1 ELSE x * Pow(x, n - 1)

\* NextBackoff(attempt, rtt), with rand.Float64()*2 - 1 = draw / 10.
NextBackoff(r, attempt, rtt, draw) ==
    LET a == IF attempt <= 0 THEN 1 ELSE attempt
        b0 == r.BaseBackoff * Pow(r.BackoffMultiplier, a - 1)
        b1 == IF rtt > 0 /\ rtt > b0 THEN rtt ELSE b0
        b2 == IF b1 > r.MaxBackoff THEN r.MaxBackoff ELSE b1
        jitter == (b2 * r.JitterPercent * draw) \div 1000
        b3 == b2 + jitter
    IN  IF b3 < r.BaseBackoff THEN r.BaseBackoff ELSE b3

\* RecordSuccess(id): the manager after the call.
RecordSuccess(r, id) ==
    [r EXCEPT !.failures = [k \in DOMAIN @ \ {id} |-> @[k]],
              !.state = [k \in DOMAIN @ \cup {id} |->
                            IF k = id THEN CircuitClosed ELSE @[k]]]

\* A RecordFailure that opens the circuit at MaxRetries failures.
RecordFailureAtLimit(r, id) ==
    LET n == (IF id \in DOMAIN r.failures THEN r.failures[id] ELSE 0) + 1
    IN  [r EXCEPT !.failures = [k \in DOMAIN @ \cup {id} |->
                                   IF k = id THEN n ELSE @[k]],
                  !.state = IF n >= r.MaxRetries
                            THEN [k \in DOMAIN @ \cup {id} |->
                                     IF k = id THEN CircuitOpen ELSE @[k]]
                            ELSE @]

\* RecordFailure(id, err): the manager after the call.
RecordFailure(r, id) ==
    LET n == (IF id \in DOMAIN r.failures THEN r.failures[id] ELSE 0) + 1
    IN  [r EXCEPT !.failures = [k \in DOMAIN @ \cup {id} |->
                                   IF k = id THEN n ELSE @[k]],
                  !.state = IF n > r.MaxRetries
                            THEN [k \in DOMAIN @ \cup {id} |->
                                     IF k = id THEN CircuitOpen ELSE @[k]]
                            ELSE @]

\* GetCircuitState(id)
GetCircuitState(r, id) ==
    IF id \in DOMAIN r.state THEN r.state[id] ELSE CircuitClosed

(***************************************************************************)
(* SpecRetry: failures and successes of two identifiers are recorded on    *)
(* one manager in any order; NextBackoff and ShouldRetry are called with   *)
(* any attempt number, round-trip time and jitter draw.                    *)
(***************************************************************************)
RetryIDs == {"a", "b"}

\* Round-trip times, in ms: negative, none, below the base, above it, the cap.
RTTs == {-100, 0, 100, 700, 30000}

\* The values of rand.Float64()*2 - 1, in tenths: from -1 to just below 1.
Draws == -10 .. 9

Attempts == -1 .. MaxAttempt

InitRetry ==
    /\ StoreIdle
    /\ DriverIdle
    /\ call = [fn |-> "NewRetryManager", r |-> NewRetryManager, log |-> <<>>,
               attempt |-> 0, rtt |-> 0, draw |-> 0, backoff |-> 0, retry |-> FALSE]

RetryRecordFailure(id) ==
    /\ call.fn \in {"NewRetryManager", "Record"}
    /\ Len(call.log) < MaxRecords
    /\ call' = [call EXCEPT !.fn = "Record", !.r = RecordFailure(call.r, id),
                            !.log = Append(@, [op |-> "failure", id |-> id])]
    /\ UNCHANGED <<storeVars, dclock, uuids, source, chunkSizeFlag, smgr, snd, runs,
                   wire, wstate, injected, faults, rmgr, rcv, parts, output>>

RetryRecordSuccess(id) ==
    /\ call.fn \in {"NewRetryManager", "Record"}
    /\ Len(call.log) < MaxRecords
    /\ call' = [call EXCEPT !.fn = "Record", !.r = RecordSuccess(call.r, id),
                            !.log = Append(@, [op |-> "success", id |-> id])]
    /\ UNCHANGED <<storeVars, dclock, uuids, source, chunkSizeFlag, smgr, snd, runs,
                   wire, wstate, injected, faults, rmgr, rcv, parts, output>>

RetryNextBackoff(attempt, rtt, draw) ==
    /\ call.fn = "NewRetryManager"
    /\ call' = [call EXCEPT !.fn = "NextBackoff", !.attempt = attempt, !.rtt = rtt,
                            !.draw = draw,
                            !.backoff = NextBackoff(call.r, attempt, rtt, draw),
                            !.retry = ShouldRetry(call.r, attempt)]
    /\ UNCHANGED <<storeVars, dclock, uuids, source, chunkSizeFlag, smgr, snd, runs,
                   wire, wstate, injected, faults, rmgr, rcv, parts, output>>

NextRetry ==
    \/ \E id \in RetryIDs : RetryRecordFailure(id)
    \/ \E id \in RetryIDs : RetryRecordSuccess(id)
    \/ \E attempt \in Attempts, rtt \in RTTs, draw \in Draws :
          RetryNextBackoff(attempt, rtt, draw)

SpecRetry == InitRetry /\ [][NextRetry]_vars

(***************************************************************************)
(* Properties of the session store.                                        *)
(***************************************************************************)
\* The step in which the call of worker w returns.
Returns(w) ==
    /\ pc[w].step # "idle"
    /\ pc'[w].step = "idle"
    /\ ret'[w].op = pc[w].op

IOErrors ==
    {"open temp session file", "encode session", "close temp session file",
     "atomic rename session file"}

FinalPaths(dsk) == {p \in DOMAIN dsk : Ext(p) = ".json"}

\* C1: when update_chunk_status(s, c, completed) returns without error, a
\* session store constructed on the base directory as it is then holds a
\* session s whose chunk c is completed and whose completed counter is
\* greater than zero.
C1_DurableCompletion ==
    [][\A w \in Workers :
          (Returns(w) /\ pc[w].op = "update" /\ pc[w].status = ChunkStatusCompleted
              /\ ret'[w].err = "")
          => LET t == loadExisting(disk')
             IN  /\ pc[w].sid \in DOMAIN t
                 /\ pc[w].cid \in DOMAIN t[pc[w].sid].Chunks
                 /\ t[pc[w].sid].Chunks[pc[w].cid].Status = ChunkStatusCompleted
                 /\ t[pc[w].sid].Completed > 0]_vars

\* C1 witness: a completion has returned without error, a new manager was
\* constructed afterwards, and its table holds the chunk as completed.
C1_Witness ==
    \E w \in Workers :
        /\ ret[w].op = "update" /\ ret[w].status = ChunkStatusCompleted
        /\ ret[w].err = ""
        /\ alive /\ gen > ret[w].at
        /\ ret[w].sid \in DOMAIN sessions
        /\ ret[w].cid \in DOMAIN sessions[ret[w].sid].Chunks
        /\ sessions[ret[w].sid].Chunks[ret[w].cid].Status = ChunkStatusCompleted
        /\ sessions[ret[w].sid].Completed > 0

\* C2: every step, a crash included, leaves each {id}.json absent, as it
\* was, or replaced by the complete encoding of the session being saved
\* (and that only by the rename); a session file never holds anything but a
\* complete JSON value, and a crash changes no session file.
C2_AtomicSessionFile ==
    [][/\ \A p \in FinalPaths(disk) \cup FinalPaths(disk') :
             \/ p \notin DOMAIN disk /\ p \notin DOMAIN disk'
             \/ p \in DOMAIN disk /\ p \in DOMAIN disk' /\ disk'[p] = disk[p]
             \/ \E w \in Workers :
                   /\ pc[w].step = "save_rename"
                   /\ p = FinalPathOf(w)
                   /\ p \in DOMAIN disk'
                   /\ disk'[p] = JSONFile(MarshalSession(sessions[pc[w].sid]))
       /\ \A p \in FinalPaths(disk') : disk'[p].kind = "json"
       /\ (alive /\ ~alive') =>
             /\ FinalPaths(disk') = FinalPaths(disk)
             /\ \A p \in FinalPaths(disk) : disk'[p] = disk[p]]_vars

\* C2 witness: the process has crashed in the middle of the write of a
\* save, leaving a cut-short temp file beside a complete earlier version.
C2_Witness ==
    /\ ~alive
    /\ \E id \in SessionIDs :
          /\ SessionPath(id) \in DOMAIN disk
          /\ disk[SessionPath(id)].kind = "json"
          /\ TmpPath(SessionPath(id)) \in DOMAIN disk
          /\ disk[TmpPath(SessionPath(id))].kind = "torn"
          /\ disk[TmpPath(SessionPath(id))].obj # disk[SessionPath(id)].obj

\* The sequential execution of the calls of the workers in the order
\* order[1], order[2], ... from session s, the k-th call reading the
\* clock at k.
RECURSIVE SeqRun(_, _, _)
SeqRun(order, k, s) ==
    IF k > NumWorkers THEN s
    ELSE SeqRun(order, k + 1,
                UpdateChunkStatusMem(s, ret[order[k]].cid, ret[order[k]].status, k))

Orders == {o \in [1 .. NumWorkers -> Workers] : \A i, j \in 1 .. NumWorkers :
                                                   o[i] = o[j] => i = j}

AllReturned == \A w \in Workers : ret[w].op = "update" /\ pc[w].step = "idle"

\* C7: when NumWorkers concurrent update_chunk_status calls on one session
\* have all returned, each has returned without error, and the session in
\* memory (chunk mapping and counters) is the one some sequential execution
\* of the same calls produces, and it is the one on disk.
C7_AtomicUpdates ==
    AllReturned =>
        /\ \A w \in Workers : ret[w].err = ""
        /\ \E o \in Orders : sessions[ConcID] = SeqRun(o, 1, ConcSession)
        /\ LoadSession(disk, ConcID) = [err |-> "", s |-> sessions[ConcID]]

\* C7 witness: every worker has completed a chunk of its own, and the
\* completed counter equals the number of workers.
C7_Witness ==
    /\ AllReturned
    /\ \A w \in Workers : ret[w].status = ChunkStatusCompleted
    /\ \A v, w \in Workers : ret[v].cid = ret[w].cid => v = w
    /\ sessions[ConcID].Completed = NumWorkers

\* C9 (as claimed): a call that returns an I/O error of the save leaves the
\* in-memory table as it was before the call.
C9_FailedSaveLeavesMemory ==
    \A w \in Workers : ret[w].err \in IOErrors => ret[w].after = ret[w].before

\* The contents of a readable file from which the stored session s is
\* deserialized: its encoding, alone or followed by other bytes, which the
\* decoder of line 198 does not read.
Holding(s) == {JSONFile(MarshalSession(s)), MixedFile(MarshalSession(s))}

\* The session the file {id}.json of the directory was written from, when
\* it is one of the valid stored sessions; the set is empty for every other
\* content: a session Validate refuses, a checkpoint, a cut-short or empty
\* file, a subdirectory, a file that cannot be opened.
StoredIn(dsk, id) ==
    {s \in {StoredSession(i) : i \in SessionIDs} : dsk[SessionPath(id)] \in Holding(s)}

\* The ids whose {id}.json deserializes and validates.
Loadable(dsk) ==
    {id \in {TrimExt(p) : p \in FinalPaths(dsk)} : StoredIn(dsk, id) # {}}

\* C10: constructing the store succeeds whenever the base directory can be
\* listed, and the table then holds exactly the sessions whose {id}.json
\* deserializes and validates, each as decoded from its file, whatever the
\* other entries of the directory are.
C10_BestEffortRehydration ==
    ctor # "none" =>
        /\ baseDir = "dir" => ctor = "ok"
        /\ ctor = "ok" =>
              /\ DOMAIN sessions = Loadable(disk)
              /\ \A id \in Loadable(disk) : StoredIn(disk, id) = {sessions[id]}

\* C10 witness: a store constructed on a directory holding an intact
\* u1.json beside a cut-short u1.json.tmp, a u2.json that holds a stored
\* session followed by other bytes, and a checkpoint file that does not
\* load; its table holds u1 and u2 and nothing else.
C10_Witness ==
    /\ ctor = "ok"
    /\ DOMAIN disk = EntryNames
    /\ disk[<<"u1", ".json">>].kind = "json"
    /\ disk[<<"u1", ".json", ".tmp">>].kind = "torn"
    /\ disk[<<"u2", ".json">>].kind = "mixed"
    /\ disk[<<"u1", ".checkpoint", ".json">>].kind \in {"torn", "noperm", "dir"}
    /\ DOMAIN sessions = {<<"u1">>, <<"u2">>}
    /\ sessions[<<"u1">>] = StoredSession(<<"u1">>)
    /\ sessions[<<"u2">>] = StoredSession(<<"u2">>)

(***************************************************************************)
(* Properties of the transfer.                                             *)
(***************************************************************************)
\* The ids of the n chunks the Chunker produces.
ChunkIDsOf(n) == {DecimalString(i) : i \in 0 .. n - 1}

\* The ids of the chunk frames run r has written.
FramesOf(r) == {runs[r].frames[k] : k \in DOMAIN runs[r].frames}

\* C3 (as claimed): a run of the sender that resumes a session writes no
\* frame for a chunk completed in the session as loaded, and a resumed run
\* that ends normally has written the frames of exactly the other chunks.
C3_ResumeSendsOnlyMissing ==
    \A r \in DOMAIN runs :
        runs[r].resumed =>
            /\ FramesOf(r) \cap runs[r].loaded = {}
            /\ runs[r].exit = "ok" =>
                  FramesOf(r) = ChunkIDsOf(runs[r].n) \ runs[r].loaded

\* The step in which the handler of connection c returns from AssembleFile
\* without error.
Assembled(c) ==
    /\ rcv[c].phase = "asm"
    /\ rcv'[c].phase = "closed"
    /\ rcv'[c].result = "ok"

\* Run c of the sender has written the control frame and the frame of
\* every chunk, and the handler of its connection has verified and stored
\* every chunk and then read a clean EOF.
CompleteTransfer(c) ==
    /\ c \in DOMAIN runs
    /\ runs[c].n > 0
    /\ Len(runs[c].frames) = runs[c].n
    /\ rcv[c].eof = "EOF"
    /\ ~rcv[c].dropped
    /\ ~rcv[c].storefail

\* C4: when the handler of a complete transfer has assembled the file, the
\* file at {output_dir}/{file.name} is the source file, block for block,
\* and its hash is the file.hash of the session.
C4_EndToEnd ==
    [][\A c \in Conns :
          (Assembled(c) /\ CompleteTransfer(c))
          => /\ FileName \in DOMAIN output'
             /\ output'[FileName].seq = source
             /\ HashFileSHA256(output'[FileName].seq) = SessOf(c).File.Hash]_vars

\* C4 witness: a file of more than one chunk, sent in full by a run of the
\* sender, has been assembled by the receiver and equals the source.
C4_Witness ==
    \E c \in Conns :
        /\ CompleteTransfer(c)
        /\ runs[c].n > 1
        /\ rcv[c].phase = "closed"
        /\ rcv[c].result = "ok"
        /\ FileName \in DOMAIN output
        /\ output[FileName].seq = source

\* The frame is a data frame whose declared sha256 is not the hash of its
\* decompressed bytes.
HashMismatch(frame) ==
    LET r == Receive(frame)
    IN  /\ r.err = ""
        /\ r.meta.ID # ControlID
        /\ \/ HexDecode(r.meta.SHA256).err # ""
           \/ HexDecode(r.meta.SHA256).bytes # HashChunk(r.data)

\* C5 (as claimed): the turn of the loop that receives, on a connection
\* with a session, a data frame whose declared sha256 is not the hash of
\* its bytes writes no scratch file, leaves the session (mapping and
\* counters) as it is, and goes on with the loop.
C5_IntegrityDrop ==
    [][\A c \in Conns :
          (/\ rcv[c].phase = "loop"
           /\ rcv[c].sid # <<>>
           /\ wire[c] # <<>>
           /\ wire'[c] = Tail(wire[c])
           /\ HashMismatch(Head(wire[c])))
          => /\ parts' = parts
             /\ rmgr' = rmgr
             /\ rcv'[c].phase = "loop"]_vars

\* C6 (as claimed): a chunk id is counted once: the completed counter of a
\* session of the receiver never exceeds the number of chunk ids in its
\* mapping.
C6_DuplicateCountedOnce ==
    \A sid \in DOMAIN rmgr.sessions :
        rmgr.sessions[sid].Completed <= Cardinality(DOMAIN rmgr.sessions[sid].Chunks)

\* C8 (as claimed): in every state, a session of the sender or of the
\* receiver with total_chunks > 0 has completed + failed <= total_chunks.
C8_CounterBound ==
    \A m \in {smgr, rmgr} : \A sid \in DOMAIN m.sessions :
        m.sessions[sid].TotalChunks > 0 =>
            m.sessions[sid].Completed + m.sessions[sid].Failed
                <= m.sessions[sid].TotalChunks

(***************************************************************************)
(* Properties of create_session, save_session and load_session.            *)
(***************************************************************************)
\* A file descriptor with an empty name, a size of zero or less, or an empty
\* hash.
InvalidDescriptor(f) == f.Name = "" \/ f.Size <= 0 \/ f.Hash = <<>>

ValidationErrors ==
    {"file name must not be empty", "file size must be greater than zero",
     "file hash must not be empty"}

\* The step in which worker w calls create_session on descriptor f: the call
\* either returns at once or goes on to save the session it inserted.
CreateCalled(w, f) ==
    /\ pc[w].step = "idle"
    /\ \/ ret'[w] # ret[w] /\ ret'[w].op = "create" /\ ret'[w].file = f
       \/ pc'[w].step # "idle" /\ pc'[w].op = "create" /\ pc'[w].file = f

\* C11: create_session called with a file descriptor whose name is empty,
\* whose size is zero or less or whose hash is empty returns a validation
\* error, adds no session to the in-memory table and writes no file in the
\* base directory.
C11_CreateValidatesFirst ==
    [][\A w \in Workers : \A f \in FileInputs :
          (InvalidDescriptor(f) /\ CreateCalled(w, f))
          => /\ pc'[w].step = "idle"
             /\ ret'[w].err \in ValidationErrors
             /\ ret'[w].after = ret'[w].before
             /\ sessions' = sessions
             /\ disk' = disk]_vars

\* C11 witness: with a session already in the table and its file on disk,
\* a create_session on a descriptor with an empty hash has returned the
\* validation error.
C11_Witness ==
    \E w \in Workers :
        /\ ret[w].op = "create"
        /\ ret[w].file.Hash = <<>>
        /\ ret[w].err = "file hash must not be empty"
        /\ ret[w].before # NoSessions
        /\ ret[w].after = ret[w].before
        /\ \E p \in DOMAIN disk : Ext(p) = ".json"

\* C12: when create_session(file) returns a session with id i, get_session(i)
\* returns a session with id i, the file of the call, status created, an
\* empty chunk mapping and zero counters; the file {base}/{i}.json holds
\* that same state; and i is an id no earlier create_session was given.
C12_CreateThenGet ==
    [][\A w \in Workers :
          /\ (Returns(w) /\ pc[w].op = "create" /\ ret'[w].err = "")
             => LET i == ret'[w].sid
                    g == GetSession(sessions', i)
                    path == i \o <<".json">>
                IN  /\ g.err = ""
                    /\ g.s.ID = i
                    /\ g.s.File = pc[w].file
                    /\ g.s.Status = SessionStatusCreated
                    /\ g.s.Chunks = NoChunks
                    /\ g.s.TotalChunks = 0 /\ g.s.Completed = 0 /\ g.s.Failed = 0
                    /\ g.s.BytesSent = 0 /\ g.s.BytesReceived = 0
                    /\ path \in DOMAIN disk'
                    /\ disk'[path].kind = "json"
                    /\ UnmarshalSession(disk'[path].obj) = g.s
          /\ (\E f \in FileInputs : CreateCalled(w, f) /\ pc'[w].step # "idle")
             => pc'[w].sid \notin issued]_vars

\* C12 witness: a second create_session has returned without error; the
\* table holds two sessions and the directory their two files.
C12_Witness ==
    \E w \in Workers :
        /\ ret[w].op = "create" /\ ret[w].err = ""
        /\ Cardinality(DOMAIN ret[w].before) = 1
        /\ Cardinality(DOMAIN ret[w].after) = 2
        /\ \A i \in DOMAIN ret[w].after : (i \o <<".json">>) \in DOMAIN disk

\* A session with an empty id, an invalid file descriptor, a status outside
\* the five session statuses, or a negative total_chunks, completed or
\* failed.
InvalidSession(s) ==
    \/ s.ID = <<>>
    \/ InvalidDescriptor(s.File)
    \/ s.Status \notin {"created", "transferring", "paused", "completed", "failed"}
    \/ s.TotalChunks < 0
    \/ s.Completed < 0
    \/ s.Failed < 0

\* The file at path holds a complete encoding of an invalid session.
HoldsInvalidSession(dsk, path) ==
    /\ path \in DOMAIN dsk
    /\ dsk[path].kind = "json"
    /\ InvalidSession(UnmarshalSession(dsk[path].obj))

\* C13: a step of a call that is saving an invalid session writes nothing,
\* and the call returns an error; a load_session of a file that holds an
\* invalid session returns an error and no session; and no session file or
\* temp file of the manager's own session ever holds an invalid session.
C13_NoInvalidSession ==
    [][\A w \in Workers :
          /\ (/\ pc[w].step \in {"save_lock", "save_open", "save_write",
                                 "save_close", "save_rename"}
              /\ InvalidSession(sessions[pc[w].sid])
              /\ pc'[w] # pc[w])
             => /\ disk' = disk
                /\ pc'[w].step = "idle" => ret'[w].err # ""
          /\ (/\ ret'[w] # ret[w]
              /\ ret'[w].op = "load"
              /\ HoldsInvalidSession(disk, ret'[w].sid \o <<".json">>))
             => /\ ret'[w].err # ""
                /\ ret'[w].after = NoSessions
          /\ ~HoldsInvalidSession(disk', ConcID \o <<".json">>)
          /\ ~HoldsInvalidSession(disk', ConcID \o <<".json", ".tmp">>)]_vars

\* C13 witness: a save_session of a session with a status outside the five
\* has returned the validation error, and a load_session of the file that
\* holds an invalid session has returned an error.
C13_Witness ==
    \E w \in Workers :
        /\ ret[w].op = "load" /\ ret[w].sid = ForeignID /\ ret[w].err # ""
        /\ sessions[ConcID].Status = "invalid"
        /\ ~HoldsInvalidSession(disk, SessionPath(ConcID))
        /\ HoldsInvalidSession(disk, SessionPath(ForeignID))

(***************************************************************************)
(* Properties of persist_checkpoint.                                       *)
(***************************************************************************)
\* Worker w is inside a persist_checkpoint call.
InCheckpoint(w) == pc[w].op = "checkpoint" /\ pc[w].step # "idle"

\* Worker w is inside an update_chunk_status call.
InUpdate(w) == pc[w].op = "update" /\ pc[w].step # "idle"

\* The checkpoint file, when it exists, holds one complete encoding.
CheckpointFileWhole ==
    CheckpointPath(ConcID) \in DOMAIN disk
        => disk[CheckpointPath(ConcID)].kind = "json"

\* C14: persist_checkpoint holds the exclusive lock of the session store
\* for its whole duration: while a call is in progress the lock is its
\* caller's, no update_chunk_status and no other persist_checkpoint is in
\* progress, and the checkpoint file, when it exists, holds one complete
\* encoding of a checkpoint.
C14_CheckpointExclusive ==
    /\ \A w \in Workers :
          InCheckpoint(w)
          => /\ lock = w
             /\ \A v \in Workers \ {w} : ~InUpdate(v) /\ ~InCheckpoint(v)
    /\ CheckpointFileWhole

(***************************************************************************)
(* Properties of the chunker.                                              *)
(***************************************************************************)
\* The clamped target for a requested size r: the default when r <= 0, the
\* minimum when 0 < r < minimum, the maximum when r > maximum, else r.
ClampedTarget(r) ==
    IF r <= 0 THEN DefaultChunkSize
    ELSE IF r < MinChunkSize THEN MinChunkSize
    ELSE IF r > MaxChunkSize THEN MaxChunkSize
    ELSE r

\* The list l tiles a file of size S with chunks of target size T.
Tiles(l, S, T) ==
    /\ S = 0 => l = <<>>
    /\ S > 0 => Len(l) > 0
    /\ \A i \in DOMAIN l :
          /\ l[i].ID = DecimalString(i - 1)
          /\ l[i].Offset = IF i = 1 THEN 0 ELSE l[i - 1].Offset + l[i - 1].Size
          /\ i < Len(l) => l[i].Size = T
          /\ i = Len(l) => /\ 0 < l[i].Size /\ l[i].Size <= T
                           /\ l[i].Offset + l[i].Size = S

\* C15: for a file of size S and clamped target T, ChunkFile returns chunks
\* with ids "0", "1", ... in order, the first at offset 0, each next one at
\* the offset where the one before ends, all but the last of size T, the
\* last of a size in (0, T], the sizes summing to S; an empty file yields
\* no chunk.
C15_ChunkerTiling ==
    call.fn = "ChunkFile"
    => \A k \in DOMAIN call.out :
          Tiles(call.out[k], Len(call.file), ClampedTarget(call.chunkSize))

\* C15 witness: a file of 12 MiB chunked at 5 MiB gave three chunks, the
\* last of 2 MiB at offset 10.
C15_Witness ==
    /\ call.fn = "ChunkFile"
    /\ Len(call.file) = 12 /\ call.chunkSize = MinChunkSize
    /\ Len(call.out) > 0
    /\ Len(call.out[1]) = 3
    /\ call.out[1][3].Size = 2 /\ call.out[1][3].Offset = 10

\* C16: the chunk size used is the default when the requested size r is
\* zero or less, the minimum when 0 < r < minimum, the maximum when
\* r > maximum and r otherwise, and is always within [minimum, maximum].
C16_ChunkSizeClamping ==
    (call.fn = "clampSize" /\ call.done)
    => /\ call.size <= 0 => call.out = DefaultChunkSize
       /\ (0 < call.size /\ call.size < MinChunkSize) => call.out = MinChunkSize
       /\ call.size > MaxChunkSize => call.out = MaxChunkSize
       /\ (MinChunkSize <= call.size /\ call.size <= MaxChunkSize)
             => call.out = call.size
       /\ MinChunkSize <= call.out /\ call.out <= MaxChunkSize

\* C16 witness: a requested size below the minimum was raised to it.
C16_Witness ==
    /\ call.fn = "clampSize" /\ call.done
    /\ 0 < call.size /\ call.size < MinChunkSize
    /\ call.out = MinChunkSize

\* A descriptor without its timestamps.
Untimed(c) == [c EXCEPT !.CreatedAt = 0, !.UpdatedAt = 0]

\* C17 as stated: any two calls of ChunkFile on an unchanged file with one
\* target size return identical lists of descriptors.
C17_ChunkerDeterminism ==
    call.fn = "ChunkFile"
    => \A j, k \in DOMAIN call.out : call.out[j] = call.out[k]

\* C17 amended: any two calls of ChunkFile on an unchanged file with one
\* target size return lists of the same length whose descriptors are,
\* index by index, the same but for created_at and updated_at, which hold
\* the time of the call.
C17_ChunkerDeterminismUntimed ==
    call.fn = "ChunkFile"
    => \A j, k \in DOMAIN call.out :
          /\ Len(call.out[j]) = Len(call.out[k])
          /\ \A i \in DOMAIN call.out[j] :
                /\ Untimed(call.out[j][i]) = Untimed(call.out[k][i])
                /\ call.out[j][i].CreatedAt = call.at[j]
                /\ call.out[j][i].UpdatedAt = call.at[j]

\* C17 witness: two calls at different times have returned three chunks
\* each.
C17_Witness ==
    /\ call.fn = "ChunkFile"
    /\ Len(call.out) = 2
    /\ call.at[1] # call.at[2]
    /\ Len(call.out[1]) = 3 /\ Len(call.out[2]) = 3

(***************************************************************************)
(* Properties of the framing.                                              *)
(***************************************************************************)
\* C18: the pairs successive Receive calls return are, in order, the pairs
\* the sender wrote, metadata and raw payload; no call returns an error
\* before the last frame was received; the call after the last frame
\* returns a clean EOF, with no byte of the stream left over.
C18_FrameRoundTrip ==
    call.fn = "Send/Receive"
    => /\ Len(call.got) <= call.sent
       /\ \A i \in DOMAIN call.got : call.got[i] = call.pairs[i]
       /\ call.end # ""
             => /\ call.end = "EOF"
                /\ call.got = call.pairs
                /\ call.stream = <<>>

\* C18 witness: two frames, the first with an empty payload and the second
\* with a payload of two blocks, were received and then a clean EOF.
C18_Witness ==
    /\ call.fn = "Send/Receive"
    /\ call.end = "EOF"
    /\ Len(call.got) = 2
    /\ call.got[1].data = NoBytes
    /\ call.got[2].data = RawBytes(<<1, 2>>)
    /\ call.got[1].meta # call.got[2].meta

\* The first frame of connection c is one of which the stream holds at
\* least one byte and not the last.
PartialFrameNext(c) ==
    /\ wire[c] # <<>>
    /\ Head(wire[c]).cut \in
          CutPoints(FrameBuffer(Head(wire[c]).meta, Head(wire[c]).data))

\* C19: the receive loop ends on a clean EOF only when the stream has ended
\* with no byte of a next frame; when the stream ends within a frame, the
\* loop ends on an error, and that turn of it writes no scratch file, adds
\* no entry to a chunk mapping and updates no status.
C19_CleanEOFOrShortRead ==
    [][\A c \in Conns :
          /\ (rcv[c].phase = "loop" /\ rcv'[c].eof = "EOF")
             => wire[c] = <<>> /\ wstate[c] = "closed"
          /\ (rcv[c].phase = "loop" /\ PartialFrameNext(c) /\ rcv'[c] # rcv[c])
             => /\ rcv'[c].phase = "assemble"
                /\ rcv'[c].eof = "error"
                /\ parts' = parts
                /\ rmgr' = rmgr]_vars

\* C19 witness: after the control frame and one chunk, stored and recorded,
\* the stream ended within the third frame and the loop ended on an error.
C19_Witness ==
    \E c \in Conns :
        /\ rcv[c].eof = "error"
        /\ rcv[c].sid # <<>>
        /\ PartPath(rcv[c].sid, "0") \in DOMAIN parts
        /\ PartPath(rcv[c].sid, "1") \notin DOMAIN parts
        /\ DOMAIN rmgr.sessions[rcv[c].sid].Chunks = {"0"}
        /\ injected = 3
        /\ wire[c] = <<>>

(***************************************************************************)
(* Properties of the sender.                                               *)
(***************************************************************************)
\* The metadata of a frame of the wire.
MetaOf(frame) == UnmarshalChunk(JSONUnmarshal(frame.meta).obj)

\* The chunk index a decimal id names, -1 for an id that names none.
IndexOf(id) ==
    IF \E k \in 0 .. Len(Digits) - 1 : DecimalString(k) = id
    THEN CHOOSE k \in 0 .. Len(Digits) - 1 : DecimalString(k) = id
    ELSE -1

\* C20: on every connection the sender has opened, the first frame written,
\* once one is, is the control frame: id "__filemeta__", offset 0, empty
\* sha256, the payload the compressed JSON of the file descriptor; every
\* later frame is the frame of a chunk, the chunk indexes increasing from
\* frame to frame; and a run that ends normally has written the control
\* frame and one frame for each chunk.
C20_SenderFrameOrder ==
    \A c \in Conns :
        wstate[c] # "none"
        => /\ wire[c] # <<>> =>
                 /\ MetaOf(wire[c][1]).ID = "__filemeta__"
                 /\ MetaOf(wire[c][1]).Offset = 0
                 /\ MetaOf(wire[c][1]).SHA256 = <<>>
                 /\ wire[c][1].data
                        = CompressChunk(JSONBytes(MarshalFile(FileMeta(source))))
           /\ runs[c].exit = "ok" => wire[c] # <<>>
           /\ \A i \in 2 .. Len(wire[c]) :
                 /\ IndexOf(MetaOf(wire[c][i]).ID) >= 0
                 /\ i > 2 => IndexOf(MetaOf(wire[c][i - 1]).ID)
                                 < IndexOf(MetaOf(wire[c][i]).ID)
           /\ runs[c].exit = "ok"
                 => {MetaOf(wire[c][i]).ID : i \in 2 .. Len(wire[c])}
                        = {DecimalString(k) : k \in 0 .. runs[c].n - 1}

\* C20 witness: a second run has ended normally after the control frame
\* and the frames of two chunks.
C20_Witness ==
    /\ Len(runs) = 2
    /\ runs[2].exit = "ok"
    /\ Len(wire[2]) = 3
    /\ MetaOf(wire[2][2]).ID = "0" /\ MetaOf(wire[2][3]).ID = "1"

(***************************************************************************)
(* C21.  A data frame received on a connection before any "__filemeta__"   *)
(* frame is dropped: the turn of the loop that receives it creates no      *)
(* session, draws no id, writes no scratch file and changes no status, and *)
(* the handler stays in its loop with the following frames still to read.  *)
(***************************************************************************)
\* Connection c is about to receive, without an error, a data frame while it
\* has no session.
DataBeforeMeta(c) ==
    /\ rcv[c].phase = "loop"
    /\ wire[c] # <<>>
    /\ rcv[c].sid = <<>>
    /\ Receive(Head(wire[c])).err = ""
    /\ Receive(Head(wire[c])).meta.ID # ControlID

C21_DataBeforeMetaDropped ==
    [][\A c \in Conns :
          DataBeforeMeta(c) /\ wire'[c] = Tail(wire[c]) =>
              /\ rmgr' = rmgr
              /\ uuids' = uuids
              /\ parts' = parts
              /\ output' = output
              /\ rcv'[c].phase = "loop"
              /\ rcv'[c].sid = <<>>]_vars

\* A data frame was dropped on a connection that has no session, nothing was
\* written, and the control frame that followed it is there to be read.
C21_Witness ==
    \E c \in Conns :
        /\ rcv[c].dropped
        /\ rcv[c].sid = <<>>
        /\ rcv[c].phase = "loop"
        /\ wire[c] = <<ControlFrame(FileMeta(PeerFile))>>
        /\ DOMAIN rmgr.sessions = {}
        /\ parts = NoFiles

(***************************************************************************)
(* C22.  Connections handled concurrently, each starting with its own      *)
(* control frame, have sessions of distinct ids, every handler writes only *)
(* scratch paths {session_id}_{chunk_id}.part of its own session, and the  *)
(* scratch paths of two sessions are disjoint, for every interleaving and  *)
(* with the same chunk ids on both.                                        *)
(***************************************************************************)
\* The scratch paths of the chunks of session sid of the receiver.
SessionPaths(sid) ==
    {PartPath(sid, k) : k \in DOMAIN rmgr.sessions[sid].Chunks}

\* The scratch files a step creates or rewrites.
PartsWritten ==
    {p \in DOMAIN parts' : p \notin DOMAIN parts \/ parts'[p] # parts[p]}

C22_ParallelConnections ==
    [][/\ \A p \in PartsWritten :
             \E c \in Conns :
                 /\ rcv[c].phase = "store"
                 /\ rcv'[c] # rcv[c]
                 /\ rcv[c].sid # <<>>
                 /\ p \in SessionPaths(rcv[c].sid)'
       /\ \A c, d \in Conns :
             c # d /\ rcv'[c].sid # <<>> /\ rcv'[d].sid # <<>> =>
                 rcv'[c].sid # rcv'[d].sid
       /\ \A s, t \in DOMAIN rmgr'.sessions :
             s # t => SessionPaths(s)' \cap SessionPaths(t)' = {}]_vars

\* Two handlers are in their loops, each with a session of its own, and each
\* has written the scratch file of chunk "0".
C22_Witness ==
    \E c, d \in Conns :
        /\ c # d
        /\ rcv[c].phase = "loop" /\ rcv[d].phase = "loop"
        /\ wire[c] # <<>> /\ wire[d] # <<>>
        /\ rcv[c].sid # <<>> /\ rcv[d].sid # <<>>
        /\ PartPath(rcv[c].sid, DecimalString(0)) \in DOMAIN parts
        /\ PartPath(rcv[d].sid, DecimalString(0)) \in DOMAIN parts

(***************************************************************************)
(* C23.  SerializePacket fails exactly for a payload longer than 65536     *)
(* bytes; DeserializePacket of the bytes it returns succeeds with a packet *)
(* equal to p in version, type, session id, chunk id, sequence number,     *)
(* priority and payload, and in the checksum SerializePacket stored in p.  *)
(***************************************************************************)
C23_PacketRoundTrip ==
    /\ call.fn \in {"SerializePacket", "DeserializePacket"} =>
           (call.err # "" <=> Len(call.arg.Payload) > 65536)
    /\ call.fn = "DeserializePacket" =>
           /\ call.got.err = ""
           /\ call.got.p = call.p
           /\ [call.got.p EXCEPT !.Checksum = call.arg.Checksum] = call.arg

\* The packet of TestSerializeDeserializePacket has made the round trip.
C23_Witness ==
    /\ call.fn = "DeserializePacket"
    /\ call.arg.ChunkID = <<0, 0, 0, 42>>
    /\ call.arg.Payload = <<104, 101, 108, 108, 111, 32, 119, 111, 114, 108, 100>>
    /\ call.got.err = ""
    /\ call.got.p.Payload = call.arg.Payload

(***************************************************************************)
(* C24.  DeserializePacket returns an error and no packet when its input   *)
(* has fewer than 42 bytes, when its first four bytes are not "TSFT", and  *)
(* when its last four bytes are not the checksum of the bytes before them; *)
(* a serialized packet with any one byte changed is refused, and its       *)
(* checksum does not verify.                                               *)
(***************************************************************************)
\* The checksum at the end of the input is not that of the bytes before it.
ChecksumDiffers(input) ==
    Uint(SubSeq(input, Len(input) - 3, Len(input)))
        # ChecksumIEEE(SubSeq(input, 1, Len(input) - 4))

Refused(got) == got.err # "" /\ got.p = NilPacket

C24_PacketRejection ==
    /\ call.fn \in {"DeserializePacket", "corrupted", "truncated"} =>
           /\ Len(call.input) < 42 => Refused(call.got)
           /\ Len(call.input) >= 4 /\ SubSeq(call.input, 1, 4) # <<84, 83, 70, 84>> =>
                  Refused(call.got)
           /\ Len(call.input) >= 42 /\ ChecksumDiffers(call.input) =>
                  Refused(call.got)
    /\ call.fn = "corrupted" =>
           Refused(call.got) /\ ChecksumDiffers(call.input)

\* A byte of the payload of a serialized packet was changed, as in
\* TestChecksumVerificationFailure, and the packet refused for its checksum.
C24_Witness ==
    /\ call.fn = "corrupted"
    /\ call.pos = Len(call.data) - checksumSize
    /\ call.pos > headerSize
    /\ call.got.err = "checksum verification failed"

(***************************************************************************)
(* C25.  Whatever the coder has encoded before, when at most ParityShards  *)
(* of the shards Encode returned for buf are replaced by nil, Decode       *)
(* returns without error bytes whose first len(buf) equal buf.  The calls  *)
(* on the coder are Encode and Decode: its shard size was never set from   *)
(* outside.                                                                *)
(***************************************************************************)
C25_ErasureRoundTrip ==
    (call.fn = "Decode" /\ ~call.sized) =>
        /\ call.err = ""
        /\ Len(call.data) >= Len(call.buf)
        /\ SubSeq(call.data, 1, Len(call.buf)) = call.buf

(***************************************************************************)
(* C26.  ValidateShards returns no error if and only if the array has      *)
(* DataShards + ParityShards shards, all its non-nil shards have one and   *)
(* the same length, and at least DataShards of them are non-nil.           *)
(***************************************************************************)
WellFormedShards(e, shards) ==
    /\ Len(shards) = e.DataShards + e.ParityShards
    /\ \A i, j \in DOMAIN shards :
          ~shards[i].nil /\ ~shards[j].nil =>
              Len(shards[i].bytes) = Len(shards[j].bytes)
    /\ Cardinality({i \in DOMAIN shards : ~shards[i].nil}) >= e.DataShards

C26_ValidateShardsExact ==
    call.fn = "ValidateShards" =>
        (call.err = "" <=> WellFormedShards(call.e, call.shards))

(***************************************************************************)
(* C27.  After any sequence of RecordFailure and RecordSuccess calls the   *)
(* circuit of an identifier is open exactly when more than 5 failures have *)
(* been recorded for it since its last recorded success, or since the      *)
(* start, and closed otherwise; a success leaves no failure count and a    *)
(* closed circuit; a call for one identifier changes neither the count nor *)
(* the circuit of another.                                                 *)
(***************************************************************************)
\* The failures recorded for id at the end of log, after its last success.
RECURSIVE FailuresSince(_, _)
FailuresSince(id, log) ==
    IF log = <<>> THEN 0
    ELSE LET last == log[Len(log)]
             rest == SubSeq(log, 1, Len(log) - 1)
         IN  IF last.id # id THEN FailuresSince(id, rest)
             ELSE IF last.op = "success" THEN 0
             ELSE 1 + FailuresSince(id, rest)

C27_CircuitBreaker ==
    [][call'.fn = "Record" =>
          LET last == call'.log[Len(call'.log)]
          IN  /\ \A id \in RetryIDs :
                    GetCircuitState(call'.r, id) =
                        IF FailuresSince(id, call'.log) > 5 THEN CircuitOpen
                        ELSE CircuitClosed
              /\ last.op = "success" =>
                    /\ last.id \notin DOMAIN call'.r.failures
                    /\ GetCircuitState(call'.r, last.id) = CircuitClosed
              /\ \A id \in RetryIDs \ {last.id} :
                    /\ GetCircuitState(call'.r, id) = GetCircuitState(call.r, id)
                    /\ (id \in DOMAIN call'.r.failures) = (id \in DOMAIN call.r.failures)
                    /\ id \in DOMAIN call.r.failures =>
                          call'.r.failures[id] = call.r.failures[id]]_vars

\* Six failures of one identifier in a row have opened its circuit; the
\* other identifier, with a failure of its own, is closed.
C27_Witness ==
    /\ call.fn = "Record"
    /\ \E id \in RetryIDs :
          /\ FailuresSince(id, call.log) = 6
          /\ GetCircuitState(call.r, id) = CircuitOpen
          /\ \E other \in RetryIDs \ {id} :
                /\ FailuresSince(other, call.log) = 1
                /\ GetCircuitState(call.r, other) = CircuitClosed

(***************************************************************************)
(* C28.  With the defaults, every delay NextBackoff returns, for every     *)
(* attempt number, every round-trip time not above the cap and every       *)
(* jitter draw, is at least the 100 ms base and at most the 30 s cap; and  *)
(* ShouldRetry(attempt) is true exactly when attempt < 5.                  *)
(***************************************************************************)
C28_BackoffBounds ==
    call.fn = "NextBackoff" /\ call.rtt <= 30000 =>
        /\ call.backoff >= 100
        /\ call.backoff <= 30000
        /\ call.retry <=> call.attempt < 5

(***************************************************************************)
(* C29.  The scratch file of an accepted chunk is written before the       *)
(* status of the chunk is completed, one frame after the other: in every   *)
(* reachable state every chunk with status completed in a session of the   *)
(* receiver has a scratch file {session_id}_{chunk_id}.part whose bytes    *)
(* verify against the hash of the chunk.                                   *)
(***************************************************************************)
\* The scratch file of chunk k of session sid is there and verifies.
Spooled(sid, k) ==
    /\ PartPath(sid, k) \in DOMAIN parts
    /\ VerifyChunk(parts[PartPath(sid, k)],
                   Copy32(HexDecode(rmgr.sessions[sid].Chunks[k].SHA256).bytes))

C29_SpoolBeforeStatus ==
    \A sid \in DOMAIN rmgr.sessions :
        \A k \in DOMAIN rmgr.sessions[sid].Chunks :
            rmgr.sessions[sid].Chunks[k].Status = ChunkStatusCompleted =>
                Spooled(sid, k)

(***************************************************************************)
(* C30.  AssembleFile truncates the output file and, when it returns       *)
(* without error, the file holds the scratch files of all the chunks of    *)
(* the session's mapping, one after the other in ascending order of        *)
(* offset, and nothing else.  A chunk of the mapping without a scratch     *)
(* file makes it return an error.  No step of AssembleFile, in success or  *)
(* in failure, removes or changes a scratch file.                          *)
(***************************************************************************)
RECURSIVE PartsInOrder(_, _)
\* The scratch files of the chunks o of session sid, one after the other.
PartsInOrder(sid, o) ==
    IF o = <<>> THEN <<>>
    ELSE parts[PartPath(sid, Head(o))].seq \o PartsInOrder(sid, Tail(o))

\* Every chunk of the mapping of the session of connection c has a scratch
\* file.
AllSpooled(c) ==
    \A k \in DOMAIN SessOf(c).Chunks : PartPath(rcv[c].sid, k) \in DOMAIN parts

\* A step of AssembleFile for the session of connection c.
AssembleStep(c) ==
    /\ rcv[c].phase \in {"assemble", "asm"}
    /\ rcv[c].sid # <<>>
    /\ rcv'[c] # rcv[c]

C30_Assembler ==
    [][\A c \in Conns :
          AssembleStep(c) =>
            /\ parts' = parts
            /\ (rcv[c].phase = "assemble" /\ rcv'[c].phase = "asm")
                   => output'[OutPath(c)] = NoBytes
            /\ Assembled(c)
                   => /\ AllSpooled(c)
                      /\ \E o \in SortByOffset(SessOf(c).Chunks) :
                            output'[OutPath(c)].seq = PartsInOrder(rcv[c].sid, o)
            /\ (rcv'[c].phase = "closed" /\ ~AllSpooled(c))
                   => rcv'[c].result \in {"open output file", "read chunk file"}]_vars

\* C30 witness: one assembly has failed on the missing scratch file of
\* chunk 1 with the scratch file of chunk 0 still there, and another has
\* returned without error and left the two scratch files of its session in
\* the output file, in order of offset.
C30_Witness ==
    \E b, c \in Conns :
        /\ b # c
        /\ rcv[b].phase = "closed" /\ rcv[b].result = "read chunk file"
        /\ PartPath(rcv[b].sid, "0") \in DOMAIN parts
        /\ PartPath(rcv[b].sid, "1") \notin DOMAIN parts
        /\ rcv[c].phase = "closed" /\ rcv[c].result = "ok"
        /\ Cardinality(DOMAIN SessOf(c).Chunks) = 2
        /\ output[FileName].seq = PeerFile

(***************************************************************************)
(* C31.  The handler of a connection creates at most one session, whatever *)
(* frames the peer writes, and every scratch file written for a chunk      *)
(* accepted on the connection is the scratch file of a chunk recorded in   *)
(* that session, the one AssembleFile is called with.  Stated for the      *)
(* receiver with one connection, where every session of the table was      *)
(* created by its handler.                                                 *)
(***************************************************************************)
C31_OneSessionPerConnection ==
    /\ Cardinality(DOMAIN rmgr.sessions) <= 1
    /\ rcv[PeerConn].sid # <<>> =>
           DOMAIN parts \subseteq SessionPaths(rcv[PeerConn].sid)

(***************************************************************************)
(* C32.  The sender records a chunk completed only after it has written    *)
(* the frame of the chunk; a run that stops on a failed send leaves on     *)
(* disk the session as it was after the last chunk recorded completed; a   *)
(* new run that has sent all n chunks leaves a session file with           *)
(* total_chunks = n, completed = n and bytes_sent = file.size.             *)
(***************************************************************************)
\* The session of the running sender as its file holds it after the step.
PersistedSession == LoadSession(smgr'.disk, snd.sid).s

\* The ids of the first k chunks of the run.
SentChunks(k) == {snd.metas[i].ID : i \in 1 .. k}

\* A step of the sender in its loop: what it has recorded, and what the
\* session file holds when the step ends the run.
SenderProgress ==
    LET r == Len(runs)
        sess == smgr.sessions[snd.sid]
    IN  /\ CompletedChunks(sess) \subseteq runs[r].loaded \cup FramesOf(r)
        /\ runs'[r].exit = "killed"
               => /\ LoadSession(smgr'.disk, snd.sid).err = ""
                  /\ PersistedSession = sess
                  /\ SentChunks(snd.idx - 1) \subseteq CompletedChunks(PersistedSession)
        /\ (runs'[r].exit = "ok" /\ ~runs[r].resumed)
               => /\ LoadSession(smgr'.disk, snd.sid).err = ""
                  /\ PersistedSession.TotalChunks = runs[r].n
                  /\ PersistedSession.Completed = runs[r].n
                  /\ PersistedSession.BytesSent = PersistedSession.File.Size
                  /\ CompletedChunks(PersistedSession) = ChunkIDsOf(runs[r].n)

\* The sender has dialled the receiver and has not exited.
InTransfer == snd.phase \in {"dialled", "sending", "sent"}

\* C32: for every run, whatever the saves of the session return.
C32_SenderProgress ==
    [][InTransfer => SenderProgress]_vars

(***************************************************************************)
(* C33.  For a session of the table GetMissingChunks returns the ids of    *)
(* the mapping whose status is not completed, each once and no other id;   *)
(* the checkpoint PersistCheckpoint has written when it returns without    *)
(* error holds every id of the mapping once, in completed_chunks when its  *)
(* status is completed and in pending_chunks otherwise, and the            *)
(* total_chunks of the session.                                            *)
(***************************************************************************)
\* The elements of list l, which has no element twice.
Once(l) == \A i, j \in DOMAIN l : l[i] = l[j] => i = j
Elems(l) == {l[i] : i \in DOMAIN l}

\* The ids of the mapping of session sid that are, or are not, completed.
WithStatus(sid, done) ==
    {c \in DOMAIN sessions[sid].Chunks :
        (sessions[sid].Chunks[c].Status = ChunkStatusCompleted) = done}

C33_MissingAndCheckpoint ==
    [][/\ (call' # call /\ call'.fn = "GetMissingChunks" /\ call'.sid \in DOMAIN sessions)
          => /\ Once(call'.missing)
             /\ Elems(call'.missing) = WithStatus(call'.sid, FALSE)
       /\ (Returns(Main) /\ ret'[Main].op = "checkpoint" /\ ret'[Main].err = "")
          => LET sid == ret'[Main].sid
                 f == disk'[CheckpointPath(sid)]
             IN  /\ f.kind = "json"
                 /\ Once(f.obj.completed_chunks \o f.obj.pending_chunks)
                 /\ Elems(f.obj.completed_chunks) = WithStatus(sid, TRUE)
                 /\ Elems(f.obj.pending_chunks) = WithStatus(sid, FALSE)
                 /\ f.obj.total_chunks = sessions[sid].TotalChunks
                 /\ f.obj.session_id = sid]_vars

\* C33 witness: of a mapping with one chunk completed and one failed,
\* GetMissingChunks has returned the failed one and the checkpoint file
\* lists the first as completed and the second as pending.
C33_Witness ==
    /\ call.fn = "GetMissingChunks"
    /\ call.missing = <<"1">>
    /\ WithStatus(ConcID, TRUE) = {"0"}
    /\ sessions[ConcID].Chunks["1"].Status = ChunkStatusFailed
    /\ CheckpointPath(ConcID) \in DOMAIN disk
    /\ disk[CheckpointPath(ConcID)].kind = "json"
    /\ disk[CheckpointPath(ConcID)].obj.completed_chunks = <<"0">>
    /\ disk[CheckpointPath(ConcID)].obj.pending_chunks = <<"1">>
    /\ disk[CheckpointPath(ConcID)].obj.total_chunks = ProjTotal

(***************************************************************************)
(* C34.  The constructor calls LoadSession for exactly the files of the    *)
(* directory whose names end in .json and not in .checkpoint.json; for a   *)
(* file {id}.checkpoint.json it makes no call, reports no failure and      *)
(* creates no entry in the table.                                          *)
(***************************************************************************)
\* The name ends in .checkpoint.json.
CheckpointName(n) ==
    Len(n) >= 2 /\ n[Len(n)] = ".json" /\ n[Len(n) - 1] = ".checkpoint"

C34_SkipsCheckpointFiles ==
    ctor = "ok" =>
        /\ LoadAttempted(disk) =
              {TrimExt(n) : n \in {e \in DOMAIN disk :
                                     /\ disk[e].kind # "dir"
                                     /\ Ext(e) = ".json"
                                     /\ ~CheckpointName(e)}}
        /\ \A n \in DOMAIN disk :
              CheckpointName(n) =>
                  /\ TrimExt(n) \notin LoadAttempted(disk)
                  /\ TrimExt(n) \notin LoadReported(disk)
                  /\ TrimExt(n) \notin DOMAIN sessions

(***************************************************************************)
(* C35.  Each Encode(buf) of a sequence of calls on one coder, buf not     *)
(* empty, returns DataShards + ParityShards shards, each of                *)
(* ceil(len(buf) / DataShards) bytes; the data shards one after the other  *)
(* are buf followed by zero bytes only.  The calls on the coder are Encode *)
(* calls: its shard size was never set from outside.                       *)
(***************************************************************************)
\* ceil(n / d)
CeilDiv(n, d) == (n + d - 1) \div d

C35_EncodeGeometry ==
    (call.fn = "Encode" /\ call.buf # <<>> /\ ~call.sized) =>
        LET e == call.e
            joined == Join(SubSeq(call.shards, 1, e.DataShards))
        IN  /\ call.err = ""
            /\ Len(call.shards) = e.DataShards + e.ParityShards
            /\ \A i \in DOMAIN call.shards :
                  /\ ~call.shards[i].nil
                  /\ Len(call.shards[i].bytes) = CeilDiv(Len(call.buf), e.DataShards)
            /\ Len(joined) >= Len(call.buf)
            /\ SubSeq(joined, 1, Len(call.buf)) = call.buf
            /\ \A j \in Len(call.buf) + 1 .. Len(joined) : joined[j] = 0

(***************************************************************************)
(* C36.  UpdateChunkStatus called with a session id that is not in the     *)
(* table returns the error "session not found" at once: the table, with    *)
(* the chunks and counters of every session in it, and the directory are   *)
(* the same after the call as before.                                      *)
(***************************************************************************)
\* The step in which worker w calls update_chunk_status on session sid.
UpdateCalled(w, sid) ==
    /\ pc[w].step = "idle"
    /\ \/ ret'[w] # ret[w] /\ ret'[w].op = "update" /\ ret'[w].sid = sid
       \/ pc'[w].step # "idle" /\ pc'[w].op = "update" /\ pc'[w].sid = sid

C36_UnknownSessionOnUpdate ==
    [][\A w \in Workers, sid \in SessionIDs :
          (UpdateCalled(w, sid) /\ sid \notin DOMAIN sessions)
          => /\ pc'[w].step = "idle"
             /\ ret'[w].err = "session not found"
             /\ sessions' = sessions
             /\ disk' = disk]_vars

\* C36 witness: an update of a session that is not in the table has
\* returned the error, beside a session with a completed chunk, which is as
\* it was.
C36_Witness ==
    \E sid \in SessionIDs :
        /\ sid \notin DOMAIN sessions
        /\ ret[Main].op = "update" /\ ret[Main].sid = sid
        /\ ret[Main].err = "session not found"
        /\ ret[Main].at = clock
        /\ sessions[ConcID].Completed = 1
        /\ DOMAIN disk = {SessionPath(ConcID)}

(***************************************************************************)
(* C37.  Whatever the sender and the receiver do, every session of their   *)
(* tables and every session file of their directories has status created   *)
(* and no completed_at, also after a transfer in which every chunk was     *)
(* completed.                                                              *)
(***************************************************************************)
\* The session has status created and its completed_at is the zero time.
StillCreated(s) == s.Status = SessionStatusCreated /\ s.CompletedAt = 0

C37_StatusStaysCreated ==
    \A m \in {smgr, rmgr} :
        /\ \A sid \in DOMAIN m.sessions : StillCreated(m.sessions[sid])
        /\ \A path \in DOMAIN m.disk :
              m.disk[path].kind = "json" =>
                  /\ m.disk[path].obj.status = SessionStatusCreated
                  /\ "completed_at" \notin DOMAIN m.disk[path].obj

\* C37 witness: a run of the sender has sent both chunks of the file and
\* ended normally, its session file counting two of two chunks completed,
\* and the session of the receiver counts both completed as well.
C37_Witness ==
    \E r \in DOMAIN runs :
        /\ runs[r].exit = "ok" /\ runs[r].n = 2
        /\ LoadSession(smgr.disk, runs[r].sid).err = ""
        /\ LoadSession(smgr.disk, runs[r].sid).s.Completed = 2
        /\ LoadSession(smgr.disk, runs[r].sid).s.TotalChunks = 2
        /\ StillCreated(LoadSession(smgr.disk, runs[r].sid).s)
        /\ rcv[r].sid # <<>>
        /\ SessOf(r).Completed = 2
        /\ StillCreated(SessOf(r))

(***************************************************************************)
(* C38.  However the loop of a handler ends, by a clean EOF or by any      *)
(* other error of Receive (the stream cut within a frame, metadata that    *)
(* does not parse, data that does not decompress), a handler that has a    *)
(* session goes on to AssembleFile, which fails only when the output file  *)
(* cannot be opened or a scratch file is missing and else reports success, *)
(* whatever file.size and total_chunks are; the handler returns without    *)
(* calling AssembleFile only from a failure on a control frame, or without *)
(* a session.                                                              *)
(***************************************************************************)
\* The handler of connection c takes a frame off the stream and Receive
\* returns an error.
ReceiveFails(c) ==
    /\ rcv[c].phase = "loop"
    /\ wire[c] # <<>>
    /\ rcv'[c] # rcv[c]
    /\ Receive(Head(wire[c])).err # ""

\* The handler of connection c returns from within its loop.
ReturnsFromLoop(c) ==
    /\ rcv[c].phase \in {"loop", "create", "store", "update"}
    /\ rcv'[c].phase = "closed"

C38_AssemblyOnEveryExit ==
    [][\A c \in Conns :
          /\ ReceiveFails(c) => rcv'[c].phase = "assemble"
          /\ ReturnsFromLoop(c)
                => \/ /\ rcv[c].phase = "loop"
                      /\ wire[c] # <<>>
                      /\ Receive(Head(wire[c])).err = ""
                      /\ Receive(Head(wire[c])).meta.ID = ControlID
                      /\ rcv'[c].result
                            \in {"invalid file metadata frame", "create session"}
                   \/ /\ rcv[c].phase = "create"
                      /\ rcv'[c].result = "create session"
          /\ (rcv[c].phase = "assemble" /\ rcv'[c] # rcv[c])
                => IF rcv[c].sid = <<>>
                   THEN rcv'[c].phase = "closed" /\ rcv'[c].result = "no session"
                   ELSE \/ rcv'[c].phase = "asm"
                        \/ rcv'[c].phase = "closed"
                              /\ rcv'[c].result = "open output file"
          /\ (rcv[c].phase = "asm" /\ rcv'[c].phase = "closed")
                => \/ rcv'[c].result = "ok"
                   \/ rcv'[c].result = "read chunk file" /\ ~AllSpooled(c)]_vars

\* C38 witness: the loop of a handler with a session has ended on an error
\* of Receive that is no clean EOF, and AssembleFile has reported success
\* with an output file shorter than file.size.
C38_Witness ==
    \E c \in Conns :
        /\ rcv[c].phase = "closed"
        /\ rcv[c].sid # <<>>
        /\ rcv[c].eof = "error"
        /\ rcv[c].result = "ok"
        /\ OutPath(c) \in DOMAIN output
        /\ Len(output[OutPath(c)].seq) = 1
        /\ SessOf(c).File.Size = 2

(***************************************************************************)
(* C39.  The output file of a session is truncated and written by the      *)
(* AssembleFile of that session only: no two handlers of different         *)
(* sessions are at the same time between the truncation of the output and  *)
(* the return of AssembleFile on the same output path, also when their     *)
(* control frames carry the same file name.                                *)
(***************************************************************************)
\* The handler of connection c has opened its output file and AssembleFile
\* has not returned.
InAssembleFile(c) == rcv[c].phase = "asm"

C39_OutputsDoNotInterfere ==
    \A c1, c2 \in Conns :
        (/\ c1 # c2
         /\ InAssembleFile(c1)
         /\ InAssembleFile(c2)
         /\ rcv[c1].sid # rcv[c2].sid)
            => OutPath(c1) # OutPath(c2)

(***************************************************************************)
(* C40.  In every state of the sender, every chunk of every session of its *)
(* table, and of every session a run would load from its session           *)
(* directory, has status completed, and GetMissingChunks returns no id for *)
(* it: also for the session of a run that stopped with some of the chunks  *)
(* of the file sent.                                                       *)
(***************************************************************************)
\* Every chunk of every session of the table is completed and no session
\* has a missing chunk.
NothingMissing(table) ==
    \A sid \in DOMAIN table :
        /\ \A c \in DOMAIN table[sid].Chunks :
               table[sid].Chunks[c].Status = ChunkStatusCompleted
        /\ GetMissingChunks(table, sid) = {<<>>}

C40_SenderRecordsNoUnsentChunk ==
    /\ NothingMissing(smgr.sessions)
    /\ NothingMissing(loadExisting(smgr.disk))

\* C40 witness: a run has resumed the session of a run that was killed with
\* one chunk of two recorded; the mapping of the session holds that chunk
\* alone and GetMissingChunks returns no id.
C40_Witness ==
    /\ Len(runs) = 2
    /\ runs[1].exit = "killed" /\ runs[1].n = 2
    /\ runs[2].resumed /\ runs[2].sid = runs[1].sid
    /\ snd.phase = "sending" /\ snd.idx = 1
    /\ snd.sid \in DOMAIN smgr.sessions
    /\ smgr.sessions[snd.sid].TotalChunks = 2
    /\ Cardinality(DOMAIN smgr.sessions[snd.sid].Chunks) = 1
    /\ GetMissingChunks(smgr.sessions, snd.sid) = {<<>>}

====
